---------------------------- MODULE Spec2Model ----------------------------
(***************************************************************************)
(* The IPP codec (crate ipp_encoder, module encoder) and the per-request   *)
(* dispatch of the printer (crate server, printer/mod.rs).                 *)
(*                                                                         *)
(* A byte buffer is a sequence of numbers 0..255.  A Rust String is the    *)
(* sequence of its UTF-8 bytes.  Offsets are the code's 0-based offsets:   *)
(* the byte at offset o of bytes is bytes[o + 1].  A decoder returns       *)
(* [ok, err, len, val]: ok = FALSE is a panic (err names its cause),       *)
(* otherwise len is the first component of the tuple the code returns and  *)
(* val the second.                                                         *)
(***************************************************************************)
EXTENDS Integers, Sequences, FiniteSets, TLC

VARIABLES
    overflow_checks,  \* the build's integer-overflow checks: on (debug) or off (release)
    scenario,         \* which entry point this run exercises
    input,            \* the value handed to the entry point
    bytes,            \* the buffer encode produced, or the buffer given to decode
    decoded,          \* what decode returned, as [ok, err, len, val]
    response,         \* IppPrinter::handle's outcome
    pc,               \* "start", "encoded", "decoded", "handled", "serving"
    data_ps,          \* the contents of the file data.ps
    jobs              \* per concurrent call of handle: how far it is, what gs read

vars == <<overflow_checks, scenario, input, bytes, decoded, response, pc, data_ps, jobs>>

-----------------------------------------------------------------------------
(* spec/tag.rs *)

OperationAttributes == 1
JobAttributes == 2
EndOfAttributes == 3
PrinterAttributes == 4
UnsupportedAttributes == 5

DelimiterTag ==
    {OperationAttributes, JobAttributes, EndOfAttributes, PrinterAttributes,
     UnsupportedAttributes}

TagUnsupported == 16
TagUnknown == 18
TagNoValue == 19
TagInteger == 33
TagBoolean == 34
TagEnum == 35
TagOctetStringUnspecified == 48
TagDateTime == 49
TagResolution == 50
TagRangeOfInteger == 51
TagBegCollection == 52
TagTextWithLanguage == 53
TagNameWithLanguage == 54
TagEndCollection == 55
TagTextWithoutLanguage == 65
TagNameWithoutLanguage == 66
TagKeyword == 68
TagUri == 69
TagUriScheme == 70
TagCharset == 71
TagNaturalLanguage == 72
TagMimeMediaType == 73
TagMemberAttrName == 74

ValueTag ==
    {TagUnsupported, TagUnknown, TagNoValue, TagInteger, TagBoolean, TagEnum,
     TagOctetStringUnspecified, TagDateTime, TagResolution, TagRangeOfInteger,
     TagBegCollection, TagTextWithLanguage, TagNameWithLanguage, TagEndCollection,
     TagTextWithoutLanguage, TagNameWithoutLanguage, TagKeyword, TagUri,
     TagUriScheme, TagCharset, TagNaturalLanguage, TagMimeMediaType,
     TagMemberAttrName}

-----------------------------------------------------------------------------
(* spec/attribute.rs *)

\* OperationAttribute: the keywords of the enum, each as its UTF-8 bytes
OperationAttribute ==
  {
    <<114, 101, 113, 117, 101, 115, 116, 101, 100, 45, 97, 116, 116, 114, 105, 98, 117, 116, 101, 115>>,  \* requested-attributes
    <<112, 114, 105, 110, 116, 101, 114, 45, 117, 114, 105>>,  \* printer-uri
    <<97, 116, 116, 114, 105, 98, 117, 116, 101, 115, 45, 99, 104, 97, 114, 115, 101, 116>>,  \* attributes-charset
    <<97, 116, 116, 114, 105, 98, 117, 116, 101, 115, 45, 110, 97, 116, 117, 114, 97, 108, 45, 108, 97, 110, 103, 117, 97, 103, 101>>  \* attributes-natural-language
  }

\* PrinterAttribute: the keywords of the enum, each as its UTF-8 bytes
PrinterAttribute ==
  {
    <<112, 114, 105, 110, 116, 101, 114, 45, 117, 114, 105, 45, 115, 117, 112, 112, 111, 114, 116, 101, 100>>,  \* printer-uri-supported
    <<117, 114, 105, 45, 115, 101, 99, 117, 114, 105, 116, 121, 45, 115, 117, 112, 112, 111, 114, 116, 101, 100>>,  \* uri-security-supported
    <<117, 114, 105, 45, 97, 117, 116, 104, 101, 110, 116, 105, 99, 97, 116, 105, 111, 110, 45, 115, 117, 112, 112, 111, 114, 116, 101, 100>>,  \* uri-authentication-supported
    <<112, 114, 105, 110, 116, 101, 114, 45, 110, 97, 109, 101>>,  \* printer-name
    <<112, 114, 105, 110, 116, 101, 114, 45, 108, 111, 99, 97, 116, 105, 111, 110>>,  \* printer-location
    <<112, 114, 105, 110, 116, 101, 114, 45, 105, 110, 102, 111>>,  \* printer-info
    <<112, 114, 105, 110, 116, 101, 114, 45, 109, 111, 114, 101, 45, 105, 110, 102, 111>>,  \* printer-more-info
    <<112, 114, 105, 110, 116, 101, 114, 45, 100, 114, 105, 118, 101, 114, 45, 105, 110, 115, 116, 97, 108, 108, 101, 114>>,  \* printer-driver-installer
    <<112, 114, 105, 110, 116, 101, 114, 45, 109, 97, 107, 101, 45, 97, 110, 100, 45, 109, 111, 100, 101, 108>>,  \* printer-make-and-model
    <<112, 114, 105, 110, 116, 101, 114, 45, 109, 111, 114, 101, 45, 105, 110, 102, 111, 45, 109, 97, 110, 117, 102, 97, 99, 116, 117, 114, 101, 114>>,  \* printer-more-info-manufacturer
    <<112, 114, 105, 110, 116, 101, 114, 45, 115, 116, 97, 116, 101>>,  \* printer-state
    <<112, 114, 105, 110, 116, 101, 114, 45, 115, 116, 97, 116, 101, 45, 114, 101, 97, 115, 111, 110, 115>>,  \* printer-state-reasons
    <<112, 114, 105, 110, 116, 101, 114, 45, 115, 116, 97, 116, 101, 45, 109, 101, 115, 115, 97, 103, 101>>,  \* printer-state-message
    <<105, 112, 112, 45, 118, 101, 114, 115, 105, 111, 110, 115, 45, 115, 117, 112, 112, 111, 114, 116, 101, 100>>,  \* ipp-versions-supported
    <<111, 112, 101, 114, 97, 116, 105, 111, 110, 115, 45, 115, 117, 112, 112, 111, 114, 116, 101, 100>>,  \* operations-supported
    <<109, 117, 108, 116, 105, 112, 108, 101, 45, 100, 111, 99, 117, 109, 101, 110, 116, 45, 106, 111, 98, 115, 45, 115, 117, 112, 112, 111, 114, 116, 101, 100>>,  \* multiple-document-jobs-supported
    <<99, 104, 97, 114, 115, 101, 116, 45, 99, 111, 110, 102, 105, 103, 117, 114, 101, 100>>,  \* charset-configured
    <<99, 104, 97, 114, 115, 101, 116, 45, 115, 117, 112, 112, 111, 114, 116, 101, 100>>,  \* charset-supported
    <<110, 97, 116, 117, 114, 97, 108, 45, 108, 97, 110, 103, 117, 97, 103, 101, 45, 99, 111, 110, 102, 105, 103, 117, 114, 101, 100>>,  \* natural-language-configured
    <<103, 101, 110, 101, 114, 97, 116, 101, 100, 45, 110, 97, 116, 117, 114, 97, 108, 45, 108, 97, 110, 103, 117, 97, 103, 101, 45, 115, 117, 112, 112, 111, 114, 116, 101, 100>>,  \* generated-natural-language-supported
    <<100, 111, 99, 117, 109, 101, 110, 116, 45, 102, 111, 114, 109, 97, 116, 45, 100, 101, 102, 97, 117, 108, 116>>,  \* document-format-default
    <<100, 111, 99, 117, 109, 101, 110, 116, 45, 102, 111, 114, 109, 97, 116, 45, 115, 117, 112, 112, 111, 114, 116, 101, 100>>,  \* document-format-supported
    <<112, 114, 105, 110, 116, 101, 114, 45, 105, 115, 45, 97, 99, 99, 101, 112, 116, 105, 110, 103, 45, 106, 111, 98, 115>>,  \* printer-is-accepting-jobs
    <<113, 117, 101, 117, 101, 100, 45, 106, 111, 98, 45, 99, 111, 117, 110, 116>>,  \* queued-job-count
    <<112, 114, 105, 110, 116, 101, 114, 45, 109, 101, 115, 115, 97, 103, 101, 45, 102, 114, 111, 109, 45, 111, 112, 101, 114, 97, 116, 111, 114>>,  \* printer-message-from-operator
    <<99, 111, 108, 111, 114, 45, 115, 117, 112, 112, 111, 114, 116, 101, 100>>,  \* color-supported
    <<114, 101, 102, 101, 114, 101, 110, 99, 101, 45, 117, 114, 105, 45, 115, 99, 104, 101, 109, 101, 115, 45, 115, 117, 112, 112, 111, 114, 116, 101, 100>>,  \* reference-uri-schemes-supported
    <<112, 100, 108, 45, 111, 118, 101, 114, 114, 105, 100, 101, 45, 115, 117, 112, 112, 111, 114, 116, 101, 100>>,  \* pdl-override-supported
    <<112, 114, 105, 110, 116, 101, 114, 45, 117, 112, 45, 116, 105, 109, 101>>,  \* printer-up-time
    <<112, 114, 105, 110, 116, 101, 114, 45, 99, 117, 114, 114, 101, 110, 116, 45, 116, 105, 109, 101>>,  \* printer-current-time
    <<109, 117, 108, 116, 105, 112, 108, 101, 45, 111, 112, 101, 114, 97, 116, 105, 111, 110, 45, 116, 105, 109, 101, 45, 111, 117, 116>>,  \* multiple-operation-time-out
    <<99, 111, 109, 112, 114, 101, 115, 115, 105, 111, 110, 45, 115, 117, 112, 112, 111, 114, 116, 101, 100>>,  \* compression-supported
    <<106, 111, 98, 45, 107, 45, 111, 99, 116, 101, 116, 115, 45, 115, 117, 112, 112, 111, 114, 116, 101, 100>>,  \* job-k-octets-supported
    <<106, 111, 98, 45, 105, 109, 112, 114, 101, 115, 115, 105, 111, 110, 115, 45, 115, 117, 112, 112, 111, 114, 116, 101, 100>>,  \* job-impressions-supported
    <<106, 111, 98, 45, 109, 101, 100, 105, 97, 45, 115, 104, 101, 101, 116, 115, 45, 115, 117, 112, 112, 111, 114, 116, 101, 100>>,  \* job-media-sheets-supported
    <<112, 97, 103, 101, 115, 45, 112, 101, 114, 45, 109, 105, 110, 117, 116, 101>>,  \* pages-per-minute
    <<112, 97, 103, 101, 115, 45, 112, 101, 114, 45, 109, 105, 110, 117, 116, 101, 45, 99, 111, 108, 111, 114>>  \* pages-per-minute-color
  }

\* JobTemplateAttribute: the keywords of the enum, each as its UTF-8 bytes
JobTemplateAttribute ==
  {
    <<106, 111, 98, 45, 112, 114, 105, 111, 114, 105, 116, 121>>,  \* job-priority
    <<106, 111, 98, 45, 104, 111, 108, 100, 45, 117, 110, 116, 105, 108>>,  \* job-hold-until
    <<106, 111, 98, 45, 115, 104, 101, 101, 116, 115>>,  \* job-sheets
    <<109, 117, 108, 116, 105, 112, 108, 101, 45, 100, 111, 99, 117, 109, 101, 110, 116, 45, 104, 97, 110, 100, 108, 105, 110, 103>>,  \* multiple-document-handling
    <<99, 111, 112, 105, 101, 115>>,  \* copies
    <<102, 105, 110, 105, 115, 104, 105, 110, 103, 115>>,  \* finishings
    <<112, 97, 103, 101, 45, 114, 97, 110, 103, 101, 115>>,  \* page-ranges
    <<115, 105, 100, 101, 115>>,  \* sides
    <<110, 117, 109, 98, 101, 114, 45, 117, 112>>,  \* number-up
    <<111, 114, 105, 101, 110, 116, 97, 116, 105, 111, 110, 45, 114, 101, 113, 117, 101, 115, 116, 101, 100>>,  \* orientation-requested
    <<109, 101, 100, 105, 97>>,  \* media
    <<112, 114, 105, 110, 116, 101, 114, 45, 114, 101, 115, 111, 108, 117, 116, 105, 111, 110>>,  \* printer-resolution
    <<112, 114, 105, 110, 116, 45, 113, 117, 97, 108, 105, 116, 121>>  \* print-quality
  }

\* JobAttribute: the keywords of the enum, each as its UTF-8 bytes
JobAttribute ==
  {
    <<106, 111, 98, 45, 117, 114, 105>>,  \* job-uri
    <<106, 111, 98, 45, 105, 100>>,  \* job-id
    <<106, 111, 98, 45, 112, 114, 105, 110, 116, 101, 114, 45, 117, 114, 105>>,  \* job-printer-uri
    <<106, 111, 98, 45, 109, 111, 114, 101, 45, 105, 110, 102, 111>>,  \* job-more-info
    <<106, 111, 98, 45, 110, 97, 109, 101>>,  \* job-name
    <<106, 111, 98, 45, 111, 114, 105, 103, 105, 110, 97, 116, 105, 110, 103, 45, 117, 115, 101, 114, 45, 110, 97, 109, 101>>,  \* job-originating-user-name
    <<106, 111, 98, 45, 115, 116, 97, 116, 101>>,  \* job-state
    <<106, 111, 98, 45, 115, 116, 97, 116, 101, 45, 114, 101, 97, 115, 111, 110, 115>>,  \* job-state-reasons
    <<106, 111, 98, 45, 115, 116, 97, 116, 101, 45, 109, 101, 115, 115, 97, 103, 101>>,  \* job-state-message
    <<106, 111, 98, 45, 100, 101, 116, 97, 105, 108, 101, 100, 45, 115, 116, 97, 116, 117, 115, 45, 109, 101, 115, 115, 97, 103, 101, 115>>,  \* job-detailed-status-messages
    <<106, 111, 98, 45, 100, 111, 99, 117, 109, 101, 110, 116, 45, 97, 99, 99, 101, 115, 115, 45, 101, 114, 114, 111, 114, 115>>,  \* job-document-access-errors
    <<110, 117, 109, 98, 101, 114, 45, 111, 102, 45, 100, 111, 99, 117, 109, 101, 110, 116, 115>>,  \* number-of-documents
    <<111, 117, 116, 112, 117, 116, 45, 100, 101, 118, 105, 99, 101, 45, 97, 115, 115, 105, 103, 110, 101, 100>>,  \* output-device-assigned
    <<116, 105, 109, 101, 45, 97, 116, 45, 99, 114, 101, 97, 116, 105, 111, 110>>,  \* time-at-creation
    <<116, 105, 109, 101, 45, 97, 116, 45, 112, 114, 111, 99, 101, 115, 115, 105, 110, 103>>,  \* time-at-processing
    <<116, 105, 109, 101, 45, 97, 116, 45, 99, 111, 109, 112, 108, 101, 116, 101, 100>>,  \* time-at-completed
    <<106, 111, 98, 45, 112, 114, 105, 110, 116, 101, 114, 45, 117, 112, 45, 116, 105, 109, 101>>,  \* job-printer-up-time
    <<100, 97, 116, 101, 45, 116, 105, 109, 101, 45, 97, 116, 45, 99, 114, 101, 97, 116, 105, 111, 110>>,  \* date-time-at-creation
    <<100, 97, 116, 101, 45, 116, 105, 109, 101, 45, 97, 116, 45, 112, 114, 111, 99, 101, 115, 115, 105, 110, 103>>,  \* date-time-at-processing
    <<100, 97, 116, 101, 45, 116, 105, 109, 101, 45, 97, 116, 45, 99, 111, 109, 112, 108, 101, 116, 101, 100>>,  \* date-time-at-completed
    <<110, 117, 109, 98, 101, 114, 45, 111, 102, 45, 105, 110, 116, 101, 114, 118, 101, 110, 105, 110, 103, 45, 106, 111, 98, 115>>,  \* number-of-intervening-jobs
    <<106, 111, 98, 45, 109, 101, 115, 115, 97, 103, 101, 45, 102, 114, 111, 109, 45, 111, 112, 101, 114, 97, 116, 111, 114>>,  \* job-message-from-operator
    <<106, 111, 98, 45, 107, 45, 111, 99, 116, 101, 116, 115>>,  \* job-k-octets
    <<106, 111, 98, 45, 105, 109, 112, 114, 101, 115, 115, 105, 111, 110, 115>>,  \* job-impressions
    <<106, 111, 98, 45, 109, 101, 100, 105, 97, 45, 115, 104, 101, 101, 116, 115>>,  \* job-media-sheets
    <<106, 111, 98, 45, 107, 45, 111, 99, 116, 101, 116, 115, 45, 112, 114, 111, 99, 101, 115, 115, 101, 100>>,  \* job-k-octets-processed
    <<106, 111, 98, 45, 105, 109, 112, 114, 101, 115, 115, 105, 111, 110, 115, 45, 99, 111, 109, 112, 108, 101, 116, 101, 100>>,  \* job-impressions-completed
    <<106, 111, 98, 45, 109, 101, 100, 105, 97, 45, 115, 104, 101, 101, 116, 115, 45, 99, 111, 109, 112, 108, 101, 116, 101, 100>>  \* job-media-sheets-completed
  }

-----------------------------------------------------------------------------
(* Bytes and the outcomes of a decoder *)

Byte == 0..255

\* n as u16, big-endian (to_be_bytes of a u16)
U16BE(n) == << (n \div 256) % 256, n % 256 >>

\* A u32 is [hi, lo], its two 16-bit halves (TLC's integers are 32-bit signed).
U32(hi, lo) == [hi |-> hi, lo |-> lo]

\* to_be_bytes of a u32
U32BE(n) == U16BE(n.hi) \o U16BE(n.lo)

\* to_be_bytes of an i32: two's complement
I32BE(n) ==
    LET m == IF n < 0 THEN (n + 2147483647) + 1 ELSE n
    IN  << (m \div 16777216) + (IF n < 0 THEN 128 ELSE 0), (m \div 65536) % 256,
           (m \div 256) % 256, m % 256 >>

\* u16::from_be_bytes
U16From(s) == s[1] * 256 + s[2]

\* u32::from_be_bytes
U32From(s) == U32(U16From(SubSeq(s, 1, 2)), U16From(SubSeq(s, 3, 4)))

\* i32::from_be_bytes
I32From(s) ==
    (IF s[1] >= 128 THEN s[1] - 256 ELSE s[1]) * 16777216
    + s[2] * 65536 + s[3] * 256 + s[4]

\* a u8 read as an i8, and an integer cast to u8 / i8 (the `as` casts, which wrap)
AsI8(n) ==
    LET u == n % 256
    IN  IF u >= 128 THEN u - 256 ELSE u

AsU8(n) == n % 256

\* bytes[a..b]: panics unless a <= b <= bytes.len()
SliceOk(b, from, to) == from <= to /\ to <= Len(b)

Slice(b, from, to) == SubSeq(b, from + 1, to)

Concat(a, b) == a \o b

Ok(n, v) == [ok |-> TRUE, err |-> "none", len |-> n, val |-> v]

Panic(why) == [ok |-> FALSE, err |-> why, len |-> 0, val |-> <<>>]

OutOfRange == "slice index out of range"

\* String::from_utf8(v).is_ok(): v is well-formed UTF-8
RECURSIVE IsUtf8(_)
IsUtf8(s) ==
    IF s = <<>> THEN TRUE
    ELSE
      LET b == s[1]
          cont(i) == i <= Len(s) /\ s[i] >= 128 /\ s[i] <= 191
          rest(n) == SubSeq(s, n + 1, Len(s))
      IN  IF b <= 127 THEN IsUtf8(rest(1))
          ELSE IF b >= 194 /\ b <= 223 THEN cont(2) /\ IsUtf8(rest(2))
          ELSE IF b >= 224 /\ b <= 239 THEN
              /\ cont(2) /\ cont(3)
              /\ (b = 224 => s[2] >= 160)
              /\ (b = 237 => s[2] <= 159)
              /\ IsUtf8(rest(3))
          ELSE IF b >= 240 /\ b <= 244 THEN
              /\ cont(2) /\ cont(3) /\ cont(4)
              /\ (b = 240 => s[2] >= 144)
              /\ (b = 244 => s[2] <= 143)
              /\ IsUtf8(rest(4))
          ELSE FALSE

-----------------------------------------------------------------------------
(* encoder/traits.rs, encoder/primitives.rs *)

ipp_value_length_bytes == 2

i32_ipp_bytes == 4

bool_ipp_bytes == 1

DateTime_ipp_bytes == 11

\* the trait's default ipp_len: ipp_bytes() + ipp_value_length_bytes()
default_ipp_len(ipp_bytes) == ipp_bytes + ipp_value_length_bytes

i32_from_ipp(b, offset) ==
    LET value_offset_start == offset + ipp_value_length_bytes
        value_offset_end == value_offset_start + i32_ipp_bytes
    IN  IF ~SliceOk(b, value_offset_start, value_offset_end) THEN Panic(OutOfRange)
        ELSE Ok(default_ipp_len(i32_ipp_bytes),
                I32From(Slice(b, value_offset_start, value_offset_end)))

i32_to_ipp(n) ==
    LET value_bytes == I32BE(n)
    IN  Concat(U16BE(Len(value_bytes)), value_bytes)

String_ipp_len(s) == Len(s) + ipp_value_length_bytes

\* the second half of String::from_ipp, the length field read as len
String_value(b, value_offset_start, len) ==
    IF ~SliceOk(b, value_offset_start, value_offset_start + len) THEN Panic(OutOfRange)
    ELSE IF ~IsUtf8(Slice(b, value_offset_start, value_offset_start + len))
         THEN Panic("unwrap of a FromUtf8Error")
    ELSE Ok(len + ipp_value_length_bytes,
            Slice(b, value_offset_start, value_offset_start + len))

String_from_ipp(b, offset) ==
    IF ~SliceOk(b, offset, offset + ipp_value_length_bytes) THEN Panic(OutOfRange)
    ELSE String_value(b, offset + ipp_value_length_bytes,
                      U16From(Slice(b, offset, offset + ipp_value_length_bytes)))

String_to_ipp(s) == Concat(U16BE(Len(s)), s)

bool_from_ipp(b, offset) ==
    LET value_offset_start == offset + ipp_value_length_bytes
        value_offset_end == value_offset_start + bool_ipp_bytes
    IN  IF ~SliceOk(b, value_offset_start, value_offset_end) THEN Panic(OutOfRange)
        ELSE
          LET raw == AsI8(b[value_offset_start + 1])
          IN  IF raw = 0 THEN Ok(default_ipp_len(bool_ipp_bytes), FALSE)
              ELSE IF raw = 1 THEN Ok(default_ipp_len(bool_ipp_bytes), TRUE)
              ELSE Panic("unreachable")

bool_to_ipp(v) ==
    LET value_bytes == << IF v THEN 1 ELSE 0 >>
    IN  Concat(U16BE(Len(value_bytes)), value_bytes)

-----------------------------------------------------------------------------
(* encoder/text_with_lang.rs *)

\* from_ipp after its two String::from_ipp calls
TextWithLang_both(lang, text) ==
    IF ~text.ok THEN text
    ELSE Ok(text.len + lang.len + ipp_value_length_bytes,
            [lang |-> lang.val, text |-> text.val])

\* from_ipp after its first String::from_ipp call
TextWithLang_text(b, lang_offset, lang) ==
    IF ~lang.ok THEN lang
    ELSE TextWithLang_both(lang, String_from_ipp(b, lang_offset + lang.len))

TextWithLang_from_ipp(b, offset) ==
    TextWithLang_text(b, offset + ipp_value_length_bytes,
                      String_from_ipp(b, offset + ipp_value_length_bytes))

TextWithLang_to_ipp(v) ==
    LET lang_bytes == String_to_ipp(v.lang)
        text_bytes == String_to_ipp(v.text)
        total_len == (Len(lang_bytes) % 65536) + (Len(text_bytes) % 65536)
    IN  Concat(U16BE(total_len), Concat(lang_bytes, text_bytes))

TextWithLang_ipp_len(v) ==
    ipp_value_length_bytes + String_ipp_len(v.lang) + String_ipp_len(v.text)

-----------------------------------------------------------------------------
(* encoder/datetime.rs.  A DateTime<Utc> is [year, month, day, hour, minute,   *)
(* second, micro]: the UTC calendar fields and the sub-second part in          *)
(* microseconds.                                                               *)

IsLeapYear(y) == (y % 4 = 0 /\ y % 100 # 0) \/ y % 400 = 0

DaysInMonth(y, m) ==
    IF m = 2 THEN (IF IsLeapYear(y) THEN 29 ELSE 28)
    ELSE IF m \in {4, 6, 9, 11} THEN 30 ELSE 31

\* Utc.ymd(year, month, day) does not panic
ValidDate(y, m, d) == m >= 1 /\ m <= 12 /\ d >= 1 /\ d <= DaysInMonth(y, m)

\* and_hms_micro(hour, minute, second, micro) does not panic
ValidTime(h, mi, s, us) == h < 24 /\ mi < 60 /\ s < 60 /\ us < 2000000

PlusSign == 43

MinusSign == 45

\* Utc's fixed offset: self.timezone().fix().local_minus_utc(), in seconds
Utc_local_minus_utc == 0

DateTime_ipp_len(t) == default_ipp_len(DateTime_ipp_bytes)

DateTime_from_ipp(b, offset) ==
    LET start == offset + ipp_value_length_bytes
    IN  IF ~SliceOk(b, start + 8, start + 9) THEN Panic(OutOfRange)
        ELSE IF ~SliceOk(b, start + 9, start + 10) THEN Panic(OutOfRange)
        ELSE IF ~SliceOk(b, start + 10, start + 11) THEN Panic(OutOfRange)
        ELSE
          LET direction == b[start + 8 + 1]
              hour_from_utc == b[start + 9 + 1]
              minutes_from_utc == b[start + 10 + 1]
              \* (hour_from_utc * 60 - minutes_from_utc) as i8, in u8 arithmetic
              product == hour_from_utc * 60
              difference == AsU8(product) - minutes_from_utc
              drift0 == AsI8(AsU8(difference))
              negate == direction = MinusSign
              \* drift *= -1
              drift == IF negate THEN AsI8(0 - drift0) ELSE drift0
              year == U16From(Slice(b, start, start + 2))
              month == b[start + 2 + 1]
              day == b[start + 3 + 1]
              hour == b[start + 4 + 1]
              \* (i8::from_be_bytes(slice) + drift) as u8
              sum == AsI8(b[start + 5 + 1]) + drift
              minutes == AsU8(sum)
              seconds == b[start + 6 + 1]
              deciseconds == b[start + 7 + 1]
              overflows ==
                  \/ product > 255
                  \/ difference < 0
                  \/ (negate /\ drift0 = -128)
                  \/ sum < -128
                  \/ sum > 127
          IN  IF overflow_checks /\ overflows THEN Panic("arithmetic overflow")
              ELSE IF ~ValidDate(year, month, day) THEN Panic("invalid date")
              ELSE IF ~ValidTime(hour, minutes, seconds, deciseconds * 100)
                   THEN Panic("invalid time")
              ELSE Ok(default_ipp_len(DateTime_ipp_bytes),
                      [year |-> year, month |-> month, day |-> day, hour |-> hour,
                       minute |-> minutes, second |-> seconds,
                       micro |-> deciseconds * 100])

DateTime_to_ipp(t) ==
    LET value_length_bytes == U16BE(DateTime_ipp_len(t))
        year_bytes == U16BE(t.year % 65536)
        month_bytes == << AsU8(t.month) >>
        day_bytes == << AsU8(t.day) >>
        hour_bytes == << AsU8(t.hour) >>
        minutes_bytes == << AsU8(t.minute) >>
        seconds_bytes == << AsU8(t.second) >>
        deciseconds_bytes == << 0 >>
        local_minus_utc == Utc_local_minus_utc \div 60
        direction == IF local_minus_utc < 0 THEN MinusSign ELSE PlusSign
        direction_bytes == << direction >>
        hour_from_utc_bytes == << AsU8(local_minus_utc \div 60) >>
        minutes_from_utc_bytes == << AsU8(local_minus_utc % 60) >>
    IN  value_length_bytes \o year_bytes \o month_bytes \o day_bytes \o hour_bytes
        \o minutes_bytes \o deciseconds_bytes \o seconds_bytes \o direction_bytes
        \o hour_from_utc_bytes \o minutes_from_utc_bytes

-----------------------------------------------------------------------------
(* encoder/attribute_value.rs.  An AttributeValue is a record with the field    *)
(* variant and one field per variant's payload; the payload fields of the other *)
(* variants hold a fixed filler.                                                *)

NoDateTime ==
    [year |-> 0, month |-> 0, day |-> 0, hour |-> 0, minute |-> 0, second |-> 0,
     micro |-> 0]

TextWithoutLang(s) ==
    [variant |-> "TextWithoutLang", text |-> s, lang |-> <<>>, num |-> 0,
     bool |-> FALSE, dt |-> NoDateTime]

Number(n) ==
    [variant |-> "Number", text |-> <<>>, lang |-> <<>>, num |-> n,
     bool |-> FALSE, dt |-> NoDateTime]

Boolean(v) ==
    [variant |-> "Boolean", text |-> <<>>, lang |-> <<>>, num |-> 0,
     bool |-> v, dt |-> NoDateTime]

TextWithLang(l, s) ==
    [variant |-> "TextWithLang", text |-> s, lang |-> l, num |-> 0,
     bool |-> FALSE, dt |-> NoDateTime]

DateTime(t) ==
    [variant |-> "DateTime", text |-> <<>>, lang |-> <<>>, num |-> 0,
     bool |-> FALSE, dt |-> t]

\* the arms of from_ipp's match, each wrapping what its primitive decoder returned
ValueNumber(r) == IF r.ok THEN Ok(r.len, Number(r.val)) ELSE r

ValueBoolean(r) == IF r.ok THEN Ok(r.len, Boolean(r.val)) ELSE r

ValueTextWithLang(r) ==
    IF r.ok THEN Ok(r.len, TextWithLang(r.val.lang, r.val.text)) ELSE r

ValueDateTime(r) == IF r.ok THEN Ok(r.len, DateTime(r.val)) ELSE r

ValueTextWithoutLang(r) == IF r.ok THEN Ok(r.len, TextWithoutLang(r.val)) ELSE r

\* from_ipp with the language-tagged decoder for NameWithLanguage too
AttributeValue_from_ipp_with_lang(b, offset, value_tag) ==
    IF value_tag \in {TagInteger, TagEnum} THEN ValueNumber(i32_from_ipp(b, offset))
    ELSE IF value_tag = TagBoolean THEN ValueBoolean(bool_from_ipp(b, offset))
    ELSE IF value_tag \in {TagTextWithLanguage, TagNameWithLanguage}
         THEN ValueTextWithLang(TextWithLang_from_ipp(b, offset))
    ELSE IF value_tag = TagDateTime THEN ValueDateTime(DateTime_from_ipp(b, offset))
    ELSE ValueTextWithoutLang(String_from_ipp(b, offset))

AttributeValue_from_ipp(b, offset, value_tag) ==
    IF value_tag \in {TagInteger, TagEnum} THEN ValueNumber(i32_from_ipp(b, offset))
    ELSE IF value_tag = TagBoolean THEN ValueBoolean(bool_from_ipp(b, offset))
    ELSE IF value_tag = TagTextWithLanguage
         THEN ValueTextWithLang(TextWithLang_from_ipp(b, offset))
    ELSE IF value_tag = TagDateTime THEN ValueDateTime(DateTime_from_ipp(b, offset))
    ELSE ValueTextWithoutLang(String_from_ipp(b, offset))

AttributeValue_to_ipp(v) ==
    CASE v.variant = "Boolean" -> bool_to_ipp(v.bool)
      [] v.variant = "Number" -> i32_to_ipp(v.num)
      [] v.variant = "DateTime" -> DateTime_to_ipp(v.dt)
      [] v.variant = "TextWithLang" -> TextWithLang_to_ipp(v)
      [] v.variant = "TextWithoutLang" -> String_to_ipp(v.text)

AttributeValue_ipp_len(v) ==
    CASE v.variant = "Boolean" -> default_ipp_len(bool_ipp_bytes)
      [] v.variant = "Number" -> default_ipp_len(i32_ipp_bytes)
      [] v.variant = "DateTime" -> DateTime_ipp_len(v.dt)
      [] v.variant = "TextWithLang" -> TextWithLang_ipp_len(v)
      [] v.variant = "TextWithoutLang" -> String_ipp_len(v.text)

-----------------------------------------------------------------------------
(* encoder/attribute_name.rs.  An AttributeName is [ns, kw]: the enum's arm and, *)
(* for a keyword arm, the keyword's serialised text; for Unsupported, its text.  *)

AttributeName_from_str(s) ==
    IF s \in OperationAttribute THEN [ns |-> "Operation", kw |-> s]
    ELSE IF s \in PrinterAttribute THEN [ns |-> "Printer", kw |-> s]
    ELSE IF s \in JobTemplateAttribute THEN [ns |-> "JobTemplate", kw |-> s]
    ELSE IF s \in JobAttribute THEN [ns |-> "Job", kw |-> s]
    ELSE [ns |-> "Unsupported", kw |-> s]

AttributeName_to_string(name) == name.kw

AttributeName_is_empty(name) == name.ns = "Unsupported" /\ name.kw = <<>>

AttributeName_of(r) == IF r.ok THEN Ok(r.len, AttributeName_from_str(r.val)) ELSE r

AttributeName_from_ipp(b, offset) == AttributeName_of(String_from_ipp(b, offset))

AttributeName_to_ipp(name) == String_to_ipp(AttributeName_to_string(name))

AttributeName_ipp_len(name) == String_ipp_len(AttributeName_to_string(name))

-----------------------------------------------------------------------------
(* encoder/attribute.rs.  An Attribute is [tag, name, values].  decode_one and   *)
(* from_ipp return an Option<Attribute>: some = FALSE is None.                   *)

AttrOk(n, named, v) ==
    [ok |-> TRUE, err |-> "none", len |-> n, has_name |-> named, some |-> TRUE,
     val |-> v]

AttrNone ==
    [ok |-> TRUE, err |-> "none", len |-> 0, has_name |-> FALSE, some |-> FALSE,
     val |-> <<>>]

AttrPanic(why) ==
    [ok |-> FALSE, err |-> why, len |-> 0, has_name |-> FALSE, some |-> FALSE,
     val |-> <<>>]

\* decode_one after the value is decoded
Attribute_decode_one_value(raw_int, name, value) ==
    IF ~value.ok THEN AttrPanic(value.err)
    ELSE AttrOk(1 + name.len + value.len, ~AttributeName_is_empty(name.val),
                [tag |-> raw_int, name |-> name.val, values |-> << value.val >>])

\* decode_one after the name is decoded
Attribute_decode_one_name(b, offset, raw_int, name) ==
    IF ~name.ok THEN AttrPanic(name.err)
    ELSE IF raw_int \notin ValueTag THEN AttrPanic("unwrap of None: no such ValueTag")
    ELSE Attribute_decode_one_value(
             raw_int, name, AttributeValue_from_ipp(b, offset + 1 + name.len, raw_int))

Attribute_decode_one(b, offset) ==
    IF ~SliceOk(b, offset, offset + 1) THEN AttrPanic(OutOfRange)
    ELSE IF b[offset + 1] \in DelimiterTag THEN AttrNone
    ELSE Attribute_decode_one_name(b, offset, b[offset + 1],
                                   AttributeName_from_ipp(b, offset + 1))

\* from_ipp from its second decode_one on: next is the record decode_one found
\* after the first_offset bytes absorbed so far (the while loop and its exits)
RECURSIVE Attribute_additional_values(_, _, _, _, _)
Attribute_additional_values(b, offset, first_offset, first_attribute, next) ==
    IF ~next.ok THEN AttrPanic(next.err)
    ELSE IF ~next.some THEN AttrOk(first_offset, FALSE, first_attribute)
    ELSE IF next.has_name \/ offset + first_offset + next.len >= Len(b)
         THEN AttrOk(first_offset, FALSE, first_attribute)
    ELSE Attribute_additional_values(
             b, offset, first_offset + next.len,
             [first_attribute EXCEPT !.values = @ \o next.val.values],
             Attribute_decode_one(b, offset + first_offset + next.len))

\* from_ipp after its first decode_one
Attribute_first(b, offset, first) ==
    IF ~first.ok THEN AttrPanic(first.err)
    ELSE IF ~first.some THEN AttrNone
    ELSE IF offset + first.len > Len(b) THEN AttrNone
    ELSE Attribute_additional_values(b, offset, first.len, first.val,
                                     Attribute_decode_one(b, offset + first.len))

Attribute_from_ipp(b, offset) == Attribute_first(b, offset, Attribute_decode_one(b, offset))

\* to_ipp's loop with the name written on every record
RECURSIVE Attribute_records_named(_, _)
Attribute_records_named(a, i) ==
    IF i > Len(a.values) THEN <<>>
    ELSE << a.tag >> \o AttributeName_to_ipp(a.name)
         \o AttributeValue_to_ipp(a.values[i])
         \o Attribute_records_named(a, i + 1)

\* the records of values i..n of the attribute
RECURSIVE Attribute_records(_, _)
Attribute_records(a, i) ==
    IF i > Len(a.values) THEN <<>>
    ELSE << a.tag >>
         \o (IF i = 1 THEN AttributeName_to_ipp(a.name) ELSE String_to_ipp(<<>>))
         \o AttributeValue_to_ipp(a.values[i])
         \o Attribute_records(a, i + 1)

Attribute_to_ipp(a) ==
    IF a.values # <<>> THEN Attribute_records(a, 1) ELSE <<>>

RECURSIVE Attribute_value_len(_, _)
Attribute_value_len(values, i) ==
    IF i > Len(values) THEN 0
    ELSE AttributeValue_ipp_len(values[i]) + Attribute_value_len(values, i + 1)

Attribute_ipp_len(a) ==
    IF a.values = <<>> THEN 0
    ELSE
      LET tag_len == Len(a.values)
          name_len == String_ipp_len(AttributeName_to_string(a.name))
                      + (Len(a.values) - 1) * 2
          value_len == Attribute_value_len(a.values, 1)
      IN  tag_len + name_len + value_len

-----------------------------------------------------------------------------
(* encoder/attribute_group.rs.  An AttributeGroup is [tag, attributes], with     *)
(* attributes a function from AttributeName to Attribute; the table is a         *)
(* function from DelimiterTag to AttributeGroup.  A HashMap's iteration order is *)
(* not fixed: the encoders take it as iter, a function from each key of the      *)
(* table to the sequence in which that group's attributes are visited.           *)

EmptyMap == [k \in {} |-> k]

\* HashMap::insert: a present key's entry is replaced
MapInsert(m, k, v) == (k :> v) @@ m

\* read_tag that reports no byte consumed
read_tag_still(b, offset) ==
    IF ~SliceOk(b, offset, offset + 1) THEN Panic(OutOfRange)
    ELSE Ok(0, [some |-> b[offset + 1] \in DelimiterTag, tag |-> b[offset + 1]])

\* read_tag: one byte, as an Option<DelimiterTag>
read_tag(b, offset) ==
    IF ~SliceOk(b, offset, offset + 1) THEN Panic(OutOfRange)
    ELSE Ok(1, [some |-> b[offset + 1] \in DelimiterTag, tag |-> b[offset + 1]])

\* the inner loop with the Attribute::from_ipp call before each of its rounds:
\* attribute_opt is what that call returned at shifting_offset.  Returns the
\* offset after the group's attributes as len.
RECURSIVE AttributeGroup_loop(_, _, _, _)
RECURSIVE AttributeGroup_attributes(_, _, _)
\* the inner loop that keeps the attribute a name already has
AttributeGroup_loop_keep(b, shifting_offset, attribute_opt, attributes) ==
    IF ~attribute_opt.ok THEN Panic(attribute_opt.err)
    ELSE IF shifting_offset > Len(b) THEN Ok(shifting_offset, attributes)
    ELSE IF attribute_opt.some THEN
        AttributeGroup_attributes(
            b, shifting_offset + attribute_opt.len,
            attributes @@ (attribute_opt.val.name :> attribute_opt.val))
    ELSE Ok(shifting_offset, attributes)

AttributeGroup_loop(b, shifting_offset, attribute_opt, attributes) ==
    IF ~attribute_opt.ok THEN Panic(attribute_opt.err)
    ELSE IF shifting_offset > Len(b) THEN Ok(shifting_offset, attributes)
    ELSE IF attribute_opt.some THEN
        AttributeGroup_attributes(
            b, shifting_offset + attribute_opt.len,
            MapInsert(attributes, attribute_opt.val.name, attribute_opt.val))
    ELSE Ok(shifting_offset, attributes)

AttributeGroup_attributes(b, shifting_offset, attributes) ==
    AttributeGroup_loop(b, shifting_offset, Attribute_from_ipp(b, shifting_offset),
                        attributes)

\* the outer loop: tag_opt is the tag read just before shifting_offset
RECURSIVE AttributeGroups_groups(_, _, _, _, _)
RECURSIVE AttributeGroups_next_tag(_, _, _, _, _)
RECURSIVE AttributeGroups_insert(_, _, _, _, _)
AttributeGroups_groups(b, offset, shifting_offset, tag_opt, table) ==
    IF ~(shifting_offset < Len(b)) THEN Ok(shifting_offset - offset, table)
    ELSE IF ~tag_opt.some THEN Ok(shifting_offset - offset, table)
    ELSE IF tag_opt.tag = EndOfAttributes THEN Ok(shifting_offset - offset, table)
    ELSE AttributeGroups_insert(b, offset, tag_opt.tag, table,
                                AttributeGroup_attributes(b, shifting_offset, EmptyMap))

\* the rest of a round that keeps the group a tag already has
AttributeGroups_insert_keep(b, offset, tag, table, group) ==
    IF ~group.ok THEN group
    ELSE AttributeGroups_next_tag(
             b, offset, group.len,
             table @@ (tag :> [tag |-> tag, attributes |-> group.val]),
             read_tag(b, group.len))

\* the rest of a round that inserts the group without the attributes read
AttributeGroups_insert_bare(b, offset, tag, table, group) ==
    IF ~group.ok THEN group
    ELSE AttributeGroups_next_tag(
             b, offset, group.len,
             MapInsert(table, tag, [tag |-> tag, attributes |-> EmptyMap]),
             read_tag(b, group.len))

\* the rest of a round of the outer loop, the group's attributes read
AttributeGroups_insert(b, offset, tag, table, group) ==
    IF ~group.ok THEN group
    ELSE AttributeGroups_next_tag(
             b, offset, group.len,
             MapInsert(table, tag, [tag |-> tag, attributes |-> group.val]),
             read_tag(b, group.len))

AttributeGroups_next_tag(b, offset, shifting_offset, table, next_tag) ==
    IF ~next_tag.ok THEN next_tag
    ELSE AttributeGroups_groups(b, offset, shifting_offset + next_tag.len,
                                next_tag.val, table)

\* from_ipp that does not step over the first tag
AttributeGroups_first_unshifted(b, offset, first) ==
    IF ~first.ok THEN first
    ELSE AttributeGroups_groups(b, offset, offset, first.val, EmptyMap)

\* from_ipp after its first read_tag
AttributeGroups_first(b, offset, first) ==
    IF ~first.ok THEN first
    ELSE AttributeGroups_groups(b, offset, offset + first.len, first.val, EmptyMap)

AttributeGroups_from_ipp(b, offset) ==
    AttributeGroups_first(b, offset, read_tag(b, offset))

\* the bytes of the attributes of a group, visited in the order names
RECURSIVE AttributeGroup_attribute_bytes(_, _, _)
AttributeGroup_attribute_bytes(group, names, i) ==
    IF i > Len(names) THEN <<>>
    ELSE Attribute_to_ipp(group.attributes[names[i]])
         \o AttributeGroup_attribute_bytes(group, names, i + 1)

\* the groups looked up in the order of their tags' numbers
GroupOrderByTag ==
    << OperationAttributes, JobAttributes, PrinterAttributes, UnsupportedAttributes >>

\* the order in which to_ipp looks the groups up
GroupOrder ==
    << OperationAttributes, UnsupportedAttributes, PrinterAttributes, JobAttributes >>

RECURSIVE AttributeGroups_group_bytes(_, _, _)
AttributeGroups_group_bytes(table, iter, i) ==
    IF i > Len(GroupOrder) THEN <<>>
    ELSE (IF GroupOrder[i] \in DOMAIN table
          THEN << table[GroupOrder[i]].tag >>
               \o AttributeGroup_attribute_bytes(table[GroupOrder[i]],
                                                 iter[GroupOrder[i]], 1)
          ELSE <<>>)
         \o AttributeGroups_group_bytes(table, iter, i + 1)

\* the groups' bytes alone, nothing after the last group
AttributeGroups_to_ipp_open(table, iter) ==
    AttributeGroups_group_bytes(table, iter, 1)

AttributeGroups_to_ipp(table, iter) ==
    AttributeGroups_group_bytes(table, iter, 1) \o << EndOfAttributes >>

RECURSIVE AttributeGroup_len(_, _)
AttributeGroup_len(group, names) ==
    IF names = {} THEN 0
    ELSE LET n == CHOOSE x \in names : TRUE
         IN  Attribute_ipp_len(group.attributes[n])
             + AttributeGroup_len(group, names \ {n})

RECURSIVE AttributeGroups_len(_, _)
AttributeGroups_len(table, keys) ==
    IF keys = {} THEN 0
    ELSE LET k == CHOOSE x \in keys : TRUE
         IN  1 + AttributeGroup_len(table[k], DOMAIN table[k].attributes)
             + AttributeGroups_len(table, keys \ {k})

AttributeGroups_ipp_len(table) == AttributeGroups_len(table, DOMAIN table) + 1

-----------------------------------------------------------------------------
(* encoder/operation.rs.  An Operation is [version, operation_id_or_status_code, *)
(* request_id, attribute_groups, data].                                          *)

\* from_ipp taking data from the last byte of the group table on
Operation_of_from_tag(b, offset, groups) ==
    IF ~groups.ok THEN groups
    ELSE IF ~SliceOk(b, offset + 8 + groups.len, Len(b)) THEN Panic(OutOfRange)
    ELSE Ok(8 + groups.len,
            [version |-> [major |-> b[offset + 1], minor |-> b[offset + 2]],
             operation_id_or_status_code |-> U16From(Slice(b, offset + 2, offset + 4)),
             request_id |-> U32From(Slice(b, offset + 4, offset + 8)),
             attribute_groups |-> groups.val,
             data |-> Slice(b, offset + 8 + groups.len - 1, Len(b))])

\* from_ipp after the group table is decoded
Operation_of(b, offset, groups) ==
    IF ~groups.ok THEN groups
    ELSE IF ~SliceOk(b, offset + 8 + groups.len, Len(b)) THEN Panic(OutOfRange)
    ELSE Ok(8 + groups.len,
            [version |-> [major |-> b[offset + 1], minor |-> b[offset + 2]],
             operation_id_or_status_code |-> U16From(Slice(b, offset + 2, offset + 4)),
             request_id |-> U32From(Slice(b, offset + 4, offset + 8)),
             attribute_groups |-> groups.val,
             data |-> Slice(b, offset + 8 + groups.len, Len(b))])

Operation_from_ipp(b, offset) ==
    IF ~SliceOk(b, offset, offset + 1) THEN Panic(OutOfRange)
    ELSE IF ~SliceOk(b, offset + 1, offset + 2) THEN Panic(OutOfRange)
    ELSE IF ~SliceOk(b, offset + 2, offset + 4) THEN Panic(OutOfRange)
    ELSE IF ~SliceOk(b, offset + 4, offset + 8) THEN Panic(OutOfRange)
    ELSE Operation_of(b, offset, AttributeGroups_from_ipp(b, offset + 8))

Operation_to_ipp(op, iter) ==
    << op.version.major >> \o << op.version.minor >>
    \o U16BE(op.operation_id_or_status_code)
    \o U32BE(op.request_id)
    \o AttributeGroups_to_ipp(op.attribute_groups, iter)
    \o op.data

Operation_ipp_len(op) ==
    1 + 1 + 2 + 4 + AttributeGroups_ipp_len(op.attribute_groups) + Len(op.data)

-----------------------------------------------------------------------------
(* Texts, each as its UTF-8 bytes *)

Str_copies == <<99, 111, 112, 105, 101, 115>>

Str_page_ranges == <<112, 97, 103, 101, 45, 114, 97, 110, 103, 101, 115>>

Str_x == <<120>>

Str_a == <<97>>

Str_e_acute == <<195, 169>>

Str_en == <<101, 110>>

Str_utf8 == <<117, 116, 102, 45, 56>>

Str_attributes_charset ==
    <<97, 116, 116, 114, 105, 98, 117, 116, 101, 115, 45, 99, 104, 97, 114, 115, 101, 116>>

Str_printer_current_time ==
    <<112, 114, 105, 110, 116, 101, 114, 45, 99, 117, 114, 114, 101, 110, 116, 45, 116,
      105, 109, 101>>

Str_printer_name == <<112, 114, 105, 110, 116, 101, 114, 45, 110, 97, 109, 101>>

\* "printer-uri"
Str_printer_uri ==
    <<112, 114, 105, 110, 116, 101, 114, 45, 117, 114, 105>>

\* "attributes-natural-language"
Str_attributes_natural_language ==
    <<97, 116, 116, 114, 105, 98, 117, 116, 101, 115, 45, 110, 97, 116, 117, 114, 97,
      108, 45, 108, 97, 110, 103, 117, 97, 103, 101>>

\* "requested-attributes"
Str_requested_attributes ==
    <<114, 101, 113, 117, 101, 115, 116, 101, 100, 45, 97, 116, 116, 114, 105, 98, 117,
      116, 101, 115>>

\* "en-US"
Str_en_US ==
    <<101, 110, 45, 85, 83>>

\* "1.1"
Str_1_1 ==
    <<49, 46, 49>>

\* "none"
Str_none ==
    <<110, 111, 110, 101>>

\* "unsupported"
Str_unsupported ==
    <<117, 110, 115, 117, 112, 112, 111, 114, 116, 101, 100>>

\* "application/postscript"
Str_application_postscript ==
    <<97, 112, 112, 108, 105, 99, 97, 116, 105, 111, 110, 47, 112, 111, 115, 116, 115,
      99, 114, 105, 112, 116>>

\* "text/html"
Str_text_html ==
    <<116, 101, 120, 116, 47, 104, 116, 109, 108>>

\* "text/plain"
Str_text_plain ==
    <<116, 101, 120, 116, 47, 112, 108, 97, 105, 110>>

\* "application/vnd.hp-PCL"
Str_application_vnd_hp_PCL ==
    <<97, 112, 112, 108, 105, 99, 97, 116, 105, 111, 110, 47, 118, 110, 100, 46, 104,
      112, 45, 80, 67, 76>>

\* "application/octet-stream"
Str_application_octet_stream ==
    <<97, 112, 112, 108, 105, 99, 97, 116, 105, 111, 110, 47, 111, 99, 116, 101, 116,
      45, 115, 116, 114, 101, 97, 109>>

\* "application/pdf"
Str_application_pdf ==
    <<97, 112, 112, 108, 105, 99, 97, 116, 105, 111, 110, 47, 112, 100, 102>>

\* "not-attempted"
Str_not_attempted ==
    <<110, 111, 116, 45, 97, 116, 116, 101, 109, 112, 116, 101, 100>>

\* "deflate"
Str_deflate ==
    <<100, 101, 102, 108, 97, 116, 101>>

\* "gzip"
Str_gzip ==
    <<103, 122, 105, 112>>

\* "ipp-versions-supported"
Str_ipp_versions_supported ==
    <<105, 112, 112, 45, 118, 101, 114, 115, 105, 111, 110, 115, 45, 115, 117, 112,
      112, 111, 114, 116, 101, 100>>

\* "printer-uri-supported"
Str_printer_uri_supported ==
    <<112, 114, 105, 110, 116, 101, 114, 45, 117, 114, 105, 45, 115, 117, 112, 112,
      111, 114, 116, 101, 100>>

\* "uri-security-supported"
Str_uri_security_supported ==
    <<117, 114, 105, 45, 115, 101, 99, 117, 114, 105, 116, 121, 45, 115, 117, 112, 112,
      111, 114, 116, 101, 100>>

\* "uri-authentication-supported"
Str_uri_authentication_supported ==
    <<117, 114, 105, 45, 97, 117, 116, 104, 101, 110, 116, 105, 99, 97, 116, 105, 111,
      110, 45, 115, 117, 112, 112, 111, 114, 116, 101, 100>>

\* "printer-state"
Str_printer_state ==
    <<112, 114, 105, 110, 116, 101, 114, 45, 115, 116, 97, 116, 101>>

\* "printer-state-reasons"
Str_printer_state_reasons ==
    <<112, 114, 105, 110, 116, 101, 114, 45, 115, 116, 97, 116, 101, 45, 114, 101, 97,
      115, 111, 110, 115>>

\* "operations-supported"
Str_operations_supported ==
    <<111, 112, 101, 114, 97, 116, 105, 111, 110, 115, 45, 115, 117, 112, 112, 111,
      114, 116, 101, 100>>

\* "charset-configured"
Str_charset_configured ==
    <<99, 104, 97, 114, 115, 101, 116, 45, 99, 111, 110, 102, 105, 103, 117, 114, 101,
      100>>

\* "charset-supported"
Str_charset_supported ==
    <<99, 104, 97, 114, 115, 101, 116, 45, 115, 117, 112, 112, 111, 114, 116, 101, 100>>

\* "natural-language-configured"
Str_natural_language_configured ==
    <<110, 97, 116, 117, 114, 97, 108, 45, 108, 97, 110, 103, 117, 97, 103, 101, 45,
      99, 111, 110, 102, 105, 103, 117, 114, 101, 100>>

\* "generated-natural-language-supported"
Str_generated_natural_language_supported ==
    <<103, 101, 110, 101, 114, 97, 116, 101, 100, 45, 110, 97, 116, 117, 114, 97, 108,
      45, 108, 97, 110, 103, 117, 97, 103, 101, 45, 115, 117, 112, 112, 111, 114, 116,
      101, 100>>

\* "document-format-default"
Str_document_format_default ==
    <<100, 111, 99, 117, 109, 101, 110, 116, 45, 102, 111, 114, 109, 97, 116, 45, 100,
      101, 102, 97, 117, 108, 116>>

\* "document-format-supported"
Str_document_format_supported ==
    <<100, 111, 99, 117, 109, 101, 110, 116, 45, 102, 111, 114, 109, 97, 116, 45, 115,
      117, 112, 112, 111, 114, 116, 101, 100>>

\* "printer-is-accepting-jobs"
Str_printer_is_accepting_jobs ==
    <<112, 114, 105, 110, 116, 101, 114, 45, 105, 115, 45, 97, 99, 99, 101, 112, 116,
      105, 110, 103, 45, 106, 111, 98, 115>>

\* "queued-job-count"
Str_queued_job_count ==
    <<113, 117, 101, 117, 101, 100, 45, 106, 111, 98, 45, 99, 111, 117, 110, 116>>

\* "pdl-override-supported"
Str_pdl_override_supported ==
    <<112, 100, 108, 45, 111, 118, 101, 114, 114, 105, 100, 101, 45, 115, 117, 112,
      112, 111, 114, 116, 101, 100>>

\* "printer-up-time"
Str_printer_up_time ==
    <<112, 114, 105, 110, 116, 101, 114, 45, 117, 112, 45, 116, 105, 109, 101>>

\* "compression-supported"
Str_compression_supported ==
    <<99, 111, 109, 112, 114, 101, 115, 115, 105, 111, 110, 45, 115, 117, 112, 112,
      111, 114, 116, 101, 100>>

\* "printer-info"
Str_printer_info ==
    <<112, 114, 105, 110, 116, 101, 114, 45, 105, 110, 102, 111>>

\* "bogus"
Str_bogus ==
    <<98, 111, 103, 117, 115>>

-----------------------------------------------------------------------------
(* spec/operation.rs *)

PrinterStateIdle == 3

PrintJob == 2
PrintUri == 3
ValidateJob == 4
CreateJob == 5
SendDocument == 6
SendUri == 7
CancelJob == 8
GetJobAttributes == 9
GetJobs == 10
GetPrinterAttributes == 11
HoldJob == 12
ReleaseJob == 13
RestartJob == 14
PausePrinter == 16
ResumePrinter == 17
PurgeJobs == 18

OperationID ==
    {PrintJob, PrintUri, ValidateJob, CreateJob, SendDocument, SendUri, CancelJob,
     GetJobAttributes, GetJobs, GetPrinterAttributes, HoldJob, ReleaseJob,
     RestartJob, PausePrinter, ResumePrinter, PurgeJobs}

SuccessfulOk == 0

ServerErrorOperationNotSupported == 1281

ServerErrorVersionNotSupported == 1283

\* Operation::operation_id: OperationID::from_repr is Some
Operation_operation_id_is_some(op) == op.operation_id_or_status_code \in OperationID

-----------------------------------------------------------------------------
(* server printer/mod.rs.  The printer is [uri, name, state, jobs], fixed by     *)
(* IppPrinter::new; handle takes it by shared reference.  now is Utc::now() and  *)
(* up_time the seconds since started_at, as the providers read them.             *)

\* "ipp://localhost:6363"
Str_uri ==
    <<105, 112, 112, 58, 47, 47, 108, 111, 99, 97, 108, 104, 111, 115, 116, 58, 54,
      51, 54, 51>>

IppPrinter_new(uri, name) ==
    [uri |-> uri, name |-> name, state |-> PrinterStateIdle, jobs |-> <<>>]

Attr(tag, name, values) ==
    [tag |-> tag, name |-> AttributeName_from_str(name), values |-> values]

printer_uri(p) == Attr(TagUri, Str_printer_uri, << TextWithoutLang(p.uri) >>)

attributes_charset(p) ==
    Attr(TagCharset, Str_attributes_charset, << TextWithoutLang(Str_utf8) >>)

attributes_natural_language(p) ==
    Attr(TagNaturalLanguage, Str_attributes_natural_language,
         << TextWithoutLang(Str_en_US) >>)

\* HashMap::from of the three (name, attribute) pairs
AttributeTable3(a1, a2, a3) ==
    MapInsert(MapInsert(MapInsert(EmptyMap, a1.name, a1), a2.name, a2), a3.name, a3)

\* an operation-attributes group without the printer's uri
request_operation_attributes_no_uri(p) ==
    [tag |-> OperationAttributes,
     attributes |-> AttributeTable3(attributes_charset(p), attributes_charset(p),
                                    attributes_natural_language(p))]

request_operation_attributes(p) ==
    [tag |-> OperationAttributes,
     attributes |-> AttributeTable3(printer_uri(p), attributes_charset(p),
                                    attributes_natural_language(p))]

operation_supported(p) ==
    Attr(TagEnum, Str_operations_supported,
         << Number(PrintJob), Number(ValidateJob), Number(CancelJob),
            Number(GetPrinterAttributes), Number(GetJobAttributes), Number(GetJobs) >>)

\* the printer attributes that have a provider, each with what its provider returns
PrinterProviders(p, now, up_time) ==
    {Attr(TagKeyword, Str_ipp_versions_supported, << TextWithoutLang(Str_1_1) >>),
     Attr(TagUri, Str_printer_uri_supported, << TextWithoutLang(p.uri) >>),
     Attr(TagKeyword, Str_uri_security_supported, << TextWithoutLang(Str_none) >>),
     Attr(TagKeyword, Str_uri_authentication_supported, << TextWithoutLang(Str_none) >>),
     Attr(TagNameWithLanguage, Str_printer_name, << TextWithLang(Str_en, p.name) >>),
     Attr(TagEnum, Str_printer_state, << Number(p.state) >>),
     Attr(TagKeyword, Str_printer_state_reasons, << TextWithoutLang(Str_none) >>),
     operation_supported(p),
     Attr(TagCharset, Str_charset_configured, << TextWithoutLang(Str_utf8) >>),
     Attr(TagCharset, Str_charset_supported, << TextWithoutLang(Str_utf8) >>),
     Attr(TagNaturalLanguage, Str_natural_language_configured,
          << TextWithoutLang(Str_en_US) >>),
     Attr(TagNaturalLanguage, Str_generated_natural_language_supported,
          << TextWithoutLang(Str_en_US) >>),
     Attr(TagMimeMediaType, Str_document_format_default,
          << TextWithoutLang(Str_application_postscript) >>),
     Attr(TagMimeMediaType, Str_document_format_supported,
          << TextWithoutLang(Str_text_html), TextWithoutLang(Str_text_plain),
             TextWithoutLang(Str_application_vnd_hp_PCL),
             TextWithoutLang(Str_application_octet_stream),
             TextWithoutLang(Str_application_pdf),
             TextWithoutLang(Str_application_postscript) >>),
     Attr(TagBoolean, Str_printer_is_accepting_jobs, << Boolean(TRUE) >>),
     Attr(TagInteger, Str_queued_job_count, << Number(Len(p.jobs)) >>),
     Attr(TagKeyword, Str_pdl_override_supported,
          << TextWithoutLang(Str_not_attempted) >>),
     Attr(TagInteger, Str_printer_up_time, << Number(up_time) >>),
     Attr(TagDateTime, Str_printer_current_time, << DateTime(now) >>),
     Attr(TagKeyword, Str_compression_supported,
          << TextWithoutLang(Str_deflate), TextWithoutLang(Str_gzip) >>)}

\* Some(the one attribute of found) or None
OptionOf(found) ==
    IF found # {} THEN [some |-> TRUE, val |-> CHOOSE a \in found : TRUE]
    ELSE [some |-> FALSE, val |-> <<>>]

\* a printer none of whose attributes has a provider
request_printer_attribute_none(p, attribute_name, now, up_time) == OptionOf({})

\* request_printer_attribute: Some(attribute) or None
request_printer_attribute(p, attribute_name, now, up_time) ==
    IF attribute_name \in PrinterAttribute
    THEN OptionOf({a \in PrinterProviders(p, now, up_time) : a.name.kw = attribute_name})
    ELSE OptionOf({})

\* the loop of request_printer_attributes over requested.values, from value i
RECURSIVE requested_partition(_, _, _, _, _, _, _)
RECURSIVE requested_value(_, _, _, _, _, _, _, _)
requested_partition(p, values, i, supported, unsupported, now, up_time) ==
    IF i > Len(values) THEN [supported |-> supported, unsupported |-> unsupported]
    ELSE IF values[i].variant # "TextWithoutLang"
         THEN requested_partition(p, values, i + 1, supported, unsupported, now, up_time)
    ELSE requested_value(p, values, i, supported, unsupported, now, up_time,
                         request_printer_attribute(p, values[i].text, now, up_time))

\* one round of that loop, request_printer_attribute having returned attribute
requested_value(p, values, i, supported, unsupported, now, up_time, attribute) ==
    IF attribute.some
    THEN requested_partition(p, values, i + 1, Append(supported, attribute.val),
                             unsupported, now, up_time)
    ELSE requested_partition(p, values, i + 1, supported,
                             Append(unsupported, values[i].text), now, up_time)

RequestedAttributesName == AttributeName_from_str(Str_requested_attributes)

\* request_printer_attributes: Some((supported, unsupported)) or None
request_printer_attributes(p, request, now, up_time) ==
    IF OperationAttributes \notin DOMAIN request.attribute_groups
    THEN [some |-> FALSE, supported |-> <<>>, unsupported |-> <<>>]
    ELSE
      LET attributes == request.attribute_groups[OperationAttributes].attributes
      IN  IF RequestedAttributesName \notin DOMAIN attributes
          THEN [some |-> FALSE, supported |-> <<>>, unsupported |-> <<>>]
          ELSE
            LET parts == requested_partition(
                             p, attributes[RequestedAttributesName].values, 1,
                             <<>>, <<>>, now, up_time)
            IN  [some |-> TRUE, supported |-> parts.supported,
                 unsupported |-> parts.unsupported]

\* the attributes of the unsupported-attributes group, from unsupported[i] on
RECURSIVE unsupported_attributes(_, _, _)
unsupported_attributes(unsupported, i, attributes) ==
    IF i > Len(unsupported) THEN attributes
    ELSE
      LET attribute == [tag |-> TagUnsupported,
                        name |-> [ns |-> "Unsupported", kw |-> unsupported[i]],
                        values |-> << TextWithoutLang(Str_unsupported) >>]
      IN  unsupported_attributes(unsupported, i + 1,
                                 MapInsert(attributes, attribute.name, attribute))

\* supported.into_iter().map(|attr| (attr.name.clone(), attr)).collect()
RECURSIVE supported_attributes(_, _, _)
supported_attributes(supported, i, attributes) ==
    IF i > Len(supported) THEN attributes
    ELSE supported_attributes(supported, i + 1,
                              MapInsert(attributes, supported[i].name, supported[i]))

HandlePanic(why) ==
    [panic |-> TRUE, err |-> why, op |-> <<>>, print_job |-> FALSE,
     document |-> <<>>, out |-> <<>>, written |-> FALSE, converted |-> FALSE]

\* what handle has done had it run the Print-Job arm on every path
HandleDone_printing(request, op, print) ==
    [panic |-> FALSE, err |-> "none", op |-> op, print_job |-> TRUE,
     document |-> request.data, out |-> <<>>, written |-> FALSE, converted |-> FALSE]

\* what handle has done when it reaches response.to_ipp(): the response, and
\* whether the Print-Job arm ran (document is then what it writes to data.ps)
HandleDone(request, op, print) ==
    [panic |-> FALSE, err |-> "none", op |-> op, print_job |-> print,
     document |-> IF print THEN request.data ELSE <<>>, out |-> <<>>,
     written |-> FALSE, converted |-> FALSE]

\* handle's response had it taken the version of the request
handle_response_echo(request, operation_attribute_group) ==
    [version |-> request.version,
     request_id |-> request.request_id,
     operation_id_or_status_code |-> SuccessfulOk,
     attribute_groups |->
         MapInsert(EmptyMap, operation_attribute_group.tag, operation_attribute_group),
     data |-> <<>>]

\* handle's response as first built: 1.1, successful-ok, the request's id, and
\* the operation-attributes group
handle_response(request, operation_attribute_group) ==
    [version |-> [major |-> 1, minor |-> 1],
     request_id |-> request.request_id,
     operation_id_or_status_code |-> SuccessfulOk,
     attribute_groups |->
         MapInsert(EmptyMap, operation_attribute_group.tag, operation_attribute_group),
     data |-> <<>>]

\* the groups of the response once request_printer_attributes has returned
handle_groups(res, requested) ==
    IF requested.some
    THEN MapInsert(
             MapInsert(res.attribute_groups, UnsupportedAttributes,
                       [tag |-> UnsupportedAttributes,
                        attributes |->
                            unsupported_attributes(requested.unsupported, 1, EmptyMap)]),
             PrinterAttributes,
             [tag |-> PrinterAttributes,
              attributes |-> supported_attributes(requested.supported, 1, EmptyMap)])
    ELSE res.attribute_groups

\* handle from the version check on
handle_checks(p, request, res, supported_operations, now, up_time) ==
    IF request.version.major # 1
    THEN HandleDone(request,
                    [res EXCEPT !.operation_id_or_status_code =
                                         ServerErrorVersionNotSupported], FALSE)
    ELSE IF \A i \in 1..Len(supported_operations) :
               supported_operations[i] # Number(request.operation_id_or_status_code)
    THEN HandleDone(request,
                    [res EXCEPT !.operation_id_or_status_code =
                                         ServerErrorOperationNotSupported], FALSE)
    ELSE HandleDone(request,
                    [res EXCEPT !.attribute_groups =
                        handle_groups(res,
                            request_printer_attributes(p, request, now, up_time))],
                    request.operation_id_or_status_code = PrintJob)

\* handle after Operation::from_ipp
handle_request(p, from, now, up_time) ==
    IF ~from.ok THEN HandlePanic(from.err)
    ELSE IF ~Operation_operation_id_is_some(from.val)
    THEN HandlePanic("unwrap of None: no such OperationID")
    ELSE handle_checks(p, from.val,
                       handle_response(from.val, request_operation_attributes(p)),
                       operation_supported(p).values, now, up_time)

\* IppPrinter::handle up to its last statement
IppPrinter_handle(p, b, now, up_time) ==
    handle_request(p, Operation_from_ipp(b, 0), now, up_time)

-----------------------------------------------------------------------------
(* The values the entry points are exercised on *)

MaxValues == 3

MaxAttrs == 2

MaxGroups == 2

MaxData == 2

MaxRequested == 2

SeqsUpTo(S, n) == UNION {[1..k -> S] : k \in 0..n}

RECURSIVE Perms(_)
Perms(S) ==
    IF S = {} THEN {<<>>}
    ELSE UNION {{<<x>> \o p : p \in Perms(S \ {x})} : x \in S}

T(y, mo, d, h, mi, s, us) ==
    [year |-> y, month |-> mo, day |-> d, hour |-> h, minute |-> mi, second |-> s,
     micro |-> us]

SampleNumbers == {0, 42, -1}

SampleTexts == {<<>>, Str_a, Str_e_acute}

SampleTextsWithLang == {TextWithLang(Str_en, Str_a), TextWithLang(<<>>, <<>>)}

SampleDateTimes ==
    {T(2024, 2, 29, 23, 59, 58, 0), T(2020, 1, 1, 0, 0, 0, 500000),
     T(1999, 12, 31, 12, 30, 5, 0)}

\* the values, each with a tag under which the printer sends such a value
SampleValues ==
    {[tag |-> TagInteger, value |-> Number(n)] : n \in SampleNumbers \union {2147483647, -2147483647 - 1}}
    \union {[tag |-> TagEnum, value |-> Number(n)] : n \in SampleNumbers}
    \union {[tag |-> TagBoolean, value |-> Boolean(v)] : v \in BOOLEAN}
    \union {[tag |-> TagKeyword, value |-> TextWithoutLang(s)] : s \in SampleTexts}
    \union {[tag |-> TagTextWithLanguage, value |-> v] : v \in SampleTextsWithLang}
    \union {[tag |-> TagDateTime, value |-> DateTime(t)] : t \in SampleDateTimes}

SampleNames ==
    {AttributeName_from_str(Str_copies), AttributeName_from_str(Str_page_ranges),
     AttributeName_from_str(Str_x),
     [ns |-> "Unsupported", kw |-> Str_copies], [ns |-> "Unsupported", kw |-> <<>>]}

\* the attributes: every value of the variant the tag's decoder produces, except
\* NameWithLanguage, which the printer sends with a TextWithLang value (printer_name)
SampleValueLists ==
    {[tag |-> TagInteger, values |-> vs] :
        vs \in SeqsUpTo({Number(n) : n \in SampleNumbers}, MaxValues)}
    \union {[tag |-> TagBoolean, values |-> vs] :
        vs \in SeqsUpTo({Boolean(v) : v \in BOOLEAN}, MaxValues)}
    \union {[tag |-> TagKeyword, values |-> vs] :
        vs \in SeqsUpTo({TextWithoutLang(s) : s \in SampleTexts}, MaxValues)}
    \union {[tag |-> TagTextWithLanguage, values |-> vs] :
        vs \in SeqsUpTo(SampleTextsWithLang, MaxValues)}
    \union {[tag |-> TagNameWithLanguage, values |-> vs] :
        vs \in SeqsUpTo(SampleTextsWithLang, 1)}
    \union {[tag |-> TagDateTime, values |-> vs] :
        vs \in SeqsUpTo({DateTime(t) : t \in SampleDateTimes}, MaxValues)}

SampleAttributes ==
    {[tag |-> l.tag, name |-> n, values |-> l.values] :
        l \in SampleValueLists, n \in SampleNames}

\* the attributes the sample groups are made of, with distinct names
AttributePool ==
    << [tag |-> TagInteger, name |-> AttributeName_from_str(Str_copies),
        values |-> << Number(42), Number(1) >>],
       [tag |-> TagBoolean, name |-> AttributeName_from_str(Str_x),
        values |-> << Boolean(TRUE) >>],
       [tag |-> TagCharset, name |-> AttributeName_from_str(Str_attributes_charset),
        values |-> << TextWithoutLang(Str_utf8) >>] >>

\* a HashMap<AttributeName, Attribute> keyed by each attribute's own name
AttributeMap(P) == [n \in {a.name : a \in P} |-> CHOOSE a \in P : a.name = n]

\* the maps of the first k attributes of pool, k up to n
MapsOf(pool, n) ==
    {AttributeMap({pool[i] : i \in 1..k}) : k \in {j \in 0..n : j <= Len(pool)}}

SampleAttributeMaps == MapsOf(AttributePool, MaxAttrs)

\* the tables over the keys K, each group carrying its key as its tag
TablesOver(K, maps) ==
    {[k \in K |-> [tag |-> k, attributes |-> g[k]]] : g \in [K -> maps]}

SampleTables ==
    UNION {TablesOver(K, SampleAttributeMaps) :
              K \in {L \in SUBSET DelimiterTag : Cardinality(L) <= MaxGroups}}

\* n bytes of trailing data, the first the value of the end-of-attributes tag
DataBytes(n) == [i \in 1..n |-> IF i % 2 = 1 THEN 3 ELSE 255]

SampleData == {DataBytes(n) : n \in 0..MaxData}

\* the orders in which a HashMap may hand out the attributes of each group
IterationOrders(table) ==
    {f \in [DOMAIN table ->
               UNION {Perms(DOMAIN table[k].attributes) : k \in DOMAIN table}] :
        \A k \in DOMAIN table : f[k] \in Perms(DOMAIN table[k].attributes)}

NoResult == [ok |-> TRUE, err |-> "none", len |-> 0, val |-> <<>>]

NoResponse ==
    [panic |-> FALSE, err |-> "none", op |-> <<>>, print_job |-> FALSE,
     document |-> <<>>, out |-> <<>>, written |-> FALSE, converted |-> FALSE]


\* the attributes the sample operations are made of: each value is of the variant
\* its tag's decoder produces, each name is what from_str gives for its text
OperationPool ==
    << [tag |-> TagInteger, name |-> AttributeName_from_str(Str_copies),
        values |-> << Number(42), Number(1) >>],
       [tag |-> TagDateTime, name |-> AttributeName_from_str(Str_printer_current_time),
        values |-> << DateTime(T(2024, 2, 29, 23, 59, 58, 0)) >>],
       [tag |-> TagCharset, name |-> AttributeName_from_str(Str_attributes_charset),
        values |-> << TextWithoutLang(Str_utf8) >>] >>

SampleOperationMaps == MapsOf(OperationPool, MaxAttrs)

\* the tables an operation carries: the groups of a message
SampleOperationTables ==
    UNION {TablesOver(K, SampleOperationMaps) :
              K \in {L \in SUBSET (DelimiterTag \ {EndOfAttributes}) :
                        Cardinality(L) <= MaxGroups}}

SampleHeaders ==
    {[version |-> [major |-> 1, minor |-> 1],
      operation_id_or_status_code |-> GetPrinterAttributes, request_id |-> U32(0, 1)],
     [version |-> [major |-> 2, minor |-> 0],
      operation_id_or_status_code |-> ServerErrorVersionNotSupported,
      request_id |-> U32(65535, 65534)]}

Op(header, table, data) ==
    [version |-> header.version,
     operation_id_or_status_code |-> header.operation_id_or_status_code,
     request_id |-> header.request_id, attribute_groups |-> table, data |-> data]

SampleOperations ==
    {Op(h, t, d) : h \in SampleHeaders, t \in SampleOperationTables, d \in SampleData}

\* a well-formed message: version 1.1, Get-Printer-Attributes, request 1, one
\* operation-attributes group (x = true; copies = 42, 1), end tag, two data bytes
GoodBuffer ==
    << 1, 1, 0, 11, 0, 0, 0, 1,
       1,
       34, 0, 1, 120, 0, 1, 1,
       33, 0, 6, 99, 111, 112, 105, 101, 115, 0, 4, 0, 0, 0, 42,
       33, 0, 0, 0, 4, 0, 0, 0, 1,
       3,
       37, 33 >>

GoodHeader == SubSeq(GoodBuffer, 1, 8)

\* the buffers handed to decode: the well-formed one, each of its truncations,
\* and buffers with one fault each
SampleBuffers ==
    {SubSeq(GoodBuffer, 1, n) : n \in 0..Len(GoodBuffer)}
    \union
    {GoodHeader \o << 1, 34, 0, 1, 120, 0, 1, 2, 3 >>,       \* a boolean byte 2
     GoodHeader \o << 1, 68, 0, 1, 120, 0, 1, 255, 3 >>,     \* a text that is not UTF-8
     GoodHeader \o << 1, 68, 0, 1, 255, 0, 1, 97, 3 >>,      \* a name that is not UTF-8
     GoodHeader \o << 1, 32, 0, 1, 120, 0, 1, 97, 3 >>,      \* 0x20: no ValueTag
     GoodHeader \o << 6, 68, 0, 1, 120, 0, 1, 97, 3 >>,      \* 0x06: no DelimiterTag
     GoodHeader \o << 1, 68, 0, 1, 120, 0, 9, 97, 3 >>,      \* value-length beyond the end
     GoodHeader \o << 1, 49, 0, 1, 120, 0, 11, 7, 228, 2, 30, 0, 0, 0, 0, 43, 0, 0, 3 >>,
                                                             \* 30 February
     GoodHeader \o << 1, 49, 0, 1, 120, 0, 11, 7, 228, 1, 1, 0, 0, 0, 0, 43, 5, 0, 3 >>,
                                                             \* UTC offset +5:00
     GoodHeader \o << 1, 68, 0, 1, 120, 0, 1, 97, 3 >>,      \* well-formed
     GoodHeader \o << 1, 33, 0, 1, 120, 0, 4, 0, 0, 0, 42, 34, 0, 0, 0, 1, 1, 3 >>,
                                                             \* a second value, a boolean
     GoodHeader \o << 1, 54, 0, 1, 120, 0, 7, 0, 2, 101, 110, 0, 1, 97, 3 >>,
                                                             \* a name with language
     GoodHeader \o << 1, 16, 0, 1, 120, 0, 1, 97, 3 >>,      \* an out-of-band tag
     GoodHeader \o << 1, 33, 0, 1, 120, 0, 4, 0, 0, 0, 42, 34, 0, 1, 120, 0, 1, 1, 3 >>,
                                                             \* the name x twice
     GoodHeader \o << 1, 34, 0, 1, 120, 0, 1, 1, 1, 33, 0, 1, 121, 0, 4, 0, 0, 0, 42, 3 >>,
                                                             \* the tag 0x01 twice
     GoodHeader \o << 1, 33, 0, 1, 120, 0, 2, 0, 42, 34, 0, 1, 3, 0, 1, 1, 3 >>,
                                                             \* an integer of 2 bytes
     GoodHeader \o << 3 >>}                                  \* well-formed, no groups

Printer == IppPrinter_new(Str_uri, Str_a)

SampleUpTimes == {0, 5}

SampleNow == {T(2024, 2, 29, 23, 59, 58, 250000), T(2020, 1, 1, 0, 0, 0, 0)}

\* what a client may ask for: attributes with a provider (one read off the
\* printer, two off the clock), a PrinterAttribute without one, an unknown text
RequestedNames ==
    {Str_printer_state, Str_printer_current_time, Str_printer_up_time,
     Str_printer_info, Str_bogus}

RequestGroups ==
    {EmptyMap}
    \union {AttributeMap({attributes_charset(Printer)})}
    \union {AttributeMap({attributes_charset(Printer),
                          [tag |-> TagKeyword, name |-> RequestedAttributesName,
                           values |-> vs]}) :
               vs \in SeqsUpTo({TextWithoutLang(s) : s \in RequestedNames},
                               MaxRequested) \ {<<>>}}

RequestTables ==
    {EmptyMap}
    \union {(OperationAttributes :> [tag |-> OperationAttributes, attributes |-> g]) :
               g \in RequestGroups}

\* 15 and 0 are no OperationID; Print-URI is one the printer does not support
RequestHeaders ==
    {[version |-> [major |-> ma, minor |-> 1], operation_id_or_status_code |-> id,
      request_id |-> U32(0, 7)] :
        ma \in {1, 2}, id \in {PrintJob, PrintUri, GetPrinterAttributes, 15, 0}}

\* "%!"
RequestData == {<<>>, << 37, 33 >>}

SampleRequests ==
    {Op(h, t, d) : h \in RequestHeaders, t \in RequestTables, d \in RequestData}

\* the request as the client sends it
RequestBytes(op) ==
    Operation_to_ipp(op, CHOOSE f \in IterationOrders(op.attribute_groups) : TRUE)

\* the calls of handle that hyper's tasks run at the same time on the one
\* Arc<IppPrinter>
Handlers == {1, 2}

\* what each of them is given: a version-1 request, Print-Job or not, with data
JobRequests ==
    {Op(h, OperationAttributes :>
               [tag |-> OperationAttributes,
                attributes |-> AttributeMap({attributes_charset(Printer)})], d) :
        h \in {r \in RequestHeaders :
                  /\ r.version.major = 1
                  /\ r.operation_id_or_status_code \in {PrintJob, GetPrinterAttributes}},
        d \in SampleData}

NoJobs == <<>>

-----------------------------------------------------------------------------
(* The runs: one entry point per run, applied to one input *)

InitValue ==
    /\ scenario = "value"
    /\ input \in SampleValues
    /\ bytes = <<>>
    /\ pc = "start"

InitAttribute ==
    /\ scenario = "attribute"
    /\ input \in SampleAttributes
    /\ bytes = <<>>
    /\ pc = "start"

InitGroups ==
    /\ scenario = "groups"
    /\ input \in SampleTables
    /\ bytes = <<>>
    /\ pc = "start"

InitOperation ==
    /\ scenario = "operation"
    /\ input \in SampleOperations
    /\ bytes = <<>>
    /\ pc = "start"

InitBuffer ==
    /\ scenario = "buffer"
    /\ input \in SampleBuffers
    /\ bytes = input
    /\ pc = "received"

InitRequest ==
    /\ scenario = "request"
    /\ input \in SampleRequests
    /\ bytes = RequestBytes(input)
    /\ pc = "received"

\* two requests have arrived, each with its own task; data.ps is empty
InitJobs ==
    /\ scenario = "jobs"
    /\ input \in [Handlers -> JobRequests]
    /\ bytes = <<>>
    /\ pc = "serving"

\* overflow_checks is the build's profile: arithmetic overflow panics (debug) or
\* wraps (release).  Only DateTime::from_ipp's arithmetic on the UTC offset can
\* overflow, and the encoders write the offset +0:00, so the profile is left
\* open in the runs that decode a received buffer and fixed in the others.
Init ==
    /\ decoded = NoResult
    /\ response = NoResponse
    /\ \/ InitValue /\ overflow_checks = FALSE
       \/ InitAttribute /\ overflow_checks = FALSE
       \/ InitGroups /\ overflow_checks = FALSE
       \/ InitOperation /\ overflow_checks = FALSE
       \/ InitBuffer /\ overflow_checks \in BOOLEAN
       \/ InitRequest /\ overflow_checks = FALSE
       \/ InitJobs /\ overflow_checks = FALSE
    /\ data_ps = <<>>
    /\ jobs = IF scenario = "jobs"
              THEN [h \in Handlers |->
                       [pc |-> "received", printed |-> FALSE, converted |-> <<>>]]
              ELSE NoJobs

EncodeValue ==
    /\ pc = "start" /\ scenario = "value"
    /\ bytes' = AttributeValue_to_ipp(input.value)
    /\ pc' = "encoded"
    /\ UNCHANGED <<overflow_checks, scenario, input, decoded, response, data_ps, jobs>>

DecodeValue ==
    /\ pc = "encoded" /\ scenario = "value"
    /\ decoded' = AttributeValue_from_ipp(bytes, 0, input.tag)
    /\ pc' = "decoded"
    /\ UNCHANGED <<overflow_checks, scenario, input, bytes, response, data_ps, jobs>>

EncodeAttribute ==
    /\ pc = "start" /\ scenario = "attribute"
    /\ bytes' = Attribute_to_ipp(input)
    /\ pc' = "encoded"
    /\ UNCHANGED <<overflow_checks, scenario, input, decoded, response, data_ps, jobs>>

DecodeAttribute ==
    /\ pc = "encoded" /\ scenario = "attribute"
    /\ decoded' = Attribute_from_ipp(bytes, 0)
    /\ pc' = "decoded"
    /\ UNCHANGED <<overflow_checks, scenario, input, bytes, response, data_ps, jobs>>

EncodeGroups ==
    /\ pc = "start" /\ scenario = "groups"
    /\ \E iter \in IterationOrders(input) :
          bytes' = AttributeGroups_to_ipp(input, iter)
    /\ pc' = "encoded"
    /\ UNCHANGED <<overflow_checks, scenario, input, decoded, response, data_ps, jobs>>

DecodeGroups ==
    /\ pc = "encoded" /\ scenario = "groups"
    /\ decoded' = AttributeGroups_from_ipp(bytes, 0)
    /\ pc' = "decoded"
    /\ UNCHANGED <<overflow_checks, scenario, input, bytes, response, data_ps, jobs>>

EncodeOperation ==
    /\ pc = "start" /\ scenario = "operation"
    /\ \E iter \in IterationOrders(input.attribute_groups) :
          bytes' = Operation_to_ipp(input, iter)
    /\ pc' = "encoded"
    /\ UNCHANGED <<overflow_checks, scenario, input, decoded, response, data_ps, jobs>>

DecodeOperation ==
    /\ \/ pc = "encoded" /\ scenario = "operation"
       \/ pc = "received" /\ scenario = "buffer"
    /\ decoded' = Operation_from_ipp(bytes, 0)
    /\ pc' = "decoded"
    /\ UNCHANGED <<overflow_checks, scenario, input, bytes, response, data_ps, jobs>>

\* response.to_ipp(), the last statement of handle: what r, the outcome so far,
\* becomes once the response is encoded
HandleEncoded(r) ==
    {[r EXCEPT !.out = Operation_to_ipp(r.op, iter),
               !.written = r.print_job, !.converted = r.print_job] :
        iter \in IterationOrders(r.op.attribute_groups)}

\* the outcomes of the Print-Job arm when the host fails one of its two calls:
\* std::fs::write(..).unwrap(), or gs's .expect(..) after data.ps is written
HandleFailed(r) ==
    {HandlePanic("unwrap of an io::Error"),
     [HandlePanic("failed to execute gs")
         EXCEPT !.print_job = TRUE, !.document = r.document, !.written = TRUE]}

\* the end of IppPrinter::handle, r being what it did up to its last statement
HandleOutcomes(r) ==
    IF r.panic THEN {r}
    ELSE IF r.print_job THEN HandleFailed(r) \union HandleEncoded(r)
    ELSE HandleEncoded(r)

\* IppPrinter::handle on the request in bytes
Handle ==
    /\ pc = "received" /\ scenario = "request"
    /\ \E now \in SampleNow, up_time \in SampleUpTimes :
          response' \in HandleOutcomes(IppPrinter_handle(Printer, bytes, now, up_time))
    /\ pc' = "handled"
    /\ UNCHANGED <<overflow_checks, scenario, input, bytes, decoded, data_ps, jobs>>

\* the call h of handle up to std::fs::write("data.ps", &request.data), r being
\* what the call does up to its last statement: the Print-Job arm writes the
\* request's data to data.ps, every other path writes nothing and is done
JobWritten(h, r) ==
    IF r.print_job
    THEN /\ data_ps' = r.document
         /\ jobs' = [jobs EXCEPT ![h].pc = "written", ![h].printed = TRUE]
    ELSE /\ data_ps' = data_ps
         /\ jobs' = [jobs EXCEPT ![h].pc = "done"]

JobWrite(h) ==
    /\ pc = "serving" /\ scenario = "jobs"
    /\ jobs[h].pc = "received"
    /\ \E now \in SampleNow, up_time \in SampleUpTimes :
          JobWritten(h, IppPrinter_handle(Printer, RequestBytes(input[h]), now, up_time))
    /\ UNCHANGED <<overflow_checks, scenario, input, bytes, decoded, response, pc>>

\* the call h of handle in ps_to_pdf("data.ps", "converted.pdf"): gs reads what
\* data.ps holds when it runs
JobConvert(h) ==
    /\ pc = "serving" /\ scenario = "jobs"
    /\ jobs[h].pc = "written"
    /\ jobs' = [jobs EXCEPT ![h].pc = "done", ![h].converted = data_ps]
    /\ UNCHANGED <<overflow_checks, scenario, input, bytes, decoded, response, pc,
                   data_ps>>

Write == \E h \in Handlers : JobWrite(h)

Convert == \E h \in Handlers : JobConvert(h)

Next ==
    \/ EncodeValue
    \/ DecodeValue
    \/ EncodeAttribute
    \/ DecodeAttribute
    \/ EncodeGroups
    \/ DecodeGroups
    \/ EncodeOperation
    \/ DecodeOperation
    \/ Handle
    \/ Write
    \/ Convert

Spec == Init /\ [][Next]_vars

-----------------------------------------------------------------------------
(* Operation::from_ipp one loop iteration at a time.  decoded holds the locals  *)
(* of the loops: shifting_offset and tag_opt of the group decoder, and of the   *)
(* Attribute::from_ipp call in progress first_offset and next, the record its   *)
(* last decode_one found; delta and attribute_some are what the call returned.  *)
(* input holds what decode_one finds at each offset of the buffer.              *)

NoRecord == AttrNone

Locals(so, tag, fo, next, delta, some) ==
    [shifting_offset |-> so, tag_opt |-> tag, first_offset |-> fo, next |-> next,
     delta |-> delta, attribute_some |-> some]

\* the buffers decoded step by step: those of the one-step runs
StepBuffers == SampleBuffers

\* what decode_one finds at each offset of b
RecordsOf(b) == [offset \in 0..Len(b) |-> Attribute_decode_one(b, offset)]

\* decode_one at offset of the buffer being decoded
decode_one(offset) == input[offset]

InitSteps ==
    /\ scenario = "steps"
    /\ bytes \in StepBuffers
    /\ overflow_checks \in BOOLEAN
    /\ input = RecordsOf(bytes)
    /\ pc = "start"
    /\ decoded = NoResult
    /\ response = NoResponse
    /\ data_ps = <<>>
    /\ jobs = NoJobs

\* the decoding is at position p with the locals l
At(p, l) == [pc |-> p, decoded |-> l]

\* a step of the decoding ends in r
StepTo(r) ==
    /\ pc' = r.pc
    /\ decoded' = r.decoded
    /\ UNCHANGED <<overflow_checks, scenario, input, bytes, response, data_ps, jobs>>

\* the decoding panics: the locals are gone
StepFailed == At("failed", NoResult)

\* the first read_tag of the group decoder, first being what it returned
StepFirstTag(first) ==
    IF ~first.ok THEN StepFailed
    ELSE At("while", Locals(8 + first.len, first.val, 0, NoRecord, 0, FALSE))

\* Operation::from_ipp up to the group decoder's while: the four header slices
\* and the first read_tag
StepHeader ==
    /\ scenario = "steps" /\ pc = "start"
    /\ StepTo(IF \/ ~SliceOk(bytes, 0, 1) \/ ~SliceOk(bytes, 1, 2)
                 \/ ~SliceOk(bytes, 2, 4) \/ ~SliceOk(bytes, 4, 8)
              THEN StepFailed
              ELSE StepFirstTag(read_tag(bytes, 8)))

\* the group decoder returns and Operation::from_ipp slices the data
StepReturned ==
    IF ~SliceOk(bytes, decoded.shifting_offset, Len(bytes)) THEN StepFailed
    ELSE At("returned", decoded)

\* the head of a round of the while loop: its exits, or the round begins with
\* the call of Attribute::from_ipp
StepWhile ==
    /\ scenario = "steps" /\ pc = "while"
    /\ StepTo(IF \/ ~(decoded.shifting_offset < Len(bytes))
                 \/ ~decoded.tag_opt.some
                 \/ decoded.tag_opt.tag = EndOfAttributes
              THEN StepReturned
              ELSE At("from_ipp", decoded))

\* Attribute::from_ipp after its first decode_one
StepFirstRecord(first) ==
    IF ~first.ok THEN StepFailed
    ELSE IF ~first.some \/ decoded.shifting_offset + first.len > Len(bytes)
    THEN At("loop", [decoded EXCEPT !.delta = 0, !.attribute_some = FALSE])
    ELSE At("second", [decoded EXCEPT !.first_offset = first.len])

\* Attribute::from_ipp up to the result of its first decode_one
StepFromIpp ==
    /\ scenario = "steps" /\ pc = "from_ipp"
    /\ StepTo(StepFirstRecord(decode_one(decoded.shifting_offset)))

\* Attribute::from_ipp after its second decode_one
StepNextRecord(next) ==
    IF ~next.ok THEN StepFailed
    ELSE At("values", [decoded EXCEPT !.next = next])

\* the second decode_one of Attribute::from_ipp, behind the first record
StepSecond ==
    /\ scenario = "steps" /\ pc = "second"
    /\ StepTo(StepNextRecord(decode_one(decoded.shifting_offset + decoded.first_offset)))

\* a round of the additional-value loop that absorbed a record, next being what
\* decode_one found behind it
StepAbsorbed(first_offset, next) ==
    IF ~next.ok THEN StepFailed
    ELSE At("values", [decoded EXCEPT !.first_offset = first_offset, !.next = next])

\* a round of the additional-value loop: its exits, with which
\* Attribute::from_ipp returns, or one more value
StepValue ==
    /\ scenario = "steps" /\ pc = "values"
    /\ StepTo(IF \/ ~decoded.next.some
                 \/ decoded.next.has_name
                 \/ decoded.shifting_offset + decoded.first_offset + decoded.next.len
                        >= Len(bytes)
              THEN At("loop", [decoded EXCEPT !.delta = decoded.first_offset,
                                              !.attribute_some = TRUE])
              ELSE StepAbsorbed(decoded.first_offset + decoded.next.len,
                                decode_one(decoded.shifting_offset + decoded.first_offset
                                               + decoded.next.len)))

\* the end of a round of the while loop: the next tag is read
StepNextTag(next_tag) ==
    IF ~next_tag.ok THEN StepFailed
    ELSE At("while", [decoded EXCEPT
                         !.shifting_offset = decoded.shifting_offset + next_tag.len,
                         !.tag_opt = next_tag.val])

\* a round of the inner loop: its exits, behind which the round of the while
\* loop ends, or the attribute is kept and the next one asked for
StepLoop ==
    /\ scenario = "steps" /\ pc = "loop"
    /\ StepTo(IF decoded.shifting_offset > Len(bytes) \/ ~decoded.attribute_some
              THEN StepNextTag(read_tag(bytes, decoded.shifting_offset))
              ELSE At("from_ipp",
                      [decoded EXCEPT
                          !.shifting_offset = decoded.shifting_offset + decoded.delta]))

StepNext ==
    \/ StepHeader
    \/ StepWhile
    \/ StepFromIpp
    \/ StepSecond
    \/ StepValue
    \/ StepLoop

\* the decoding runs on one thread that is not held up: each of its steps is
\* taken
StepSpec == InitSteps /\ [][StepNext]_vars /\ WF_vars(StepNext)

-----------------------------------------------------------------------------
(* The properties of the codec and of the printer's handler *)

WholeSecondsValue(v) == [v EXCEPT !.dt.micro = 0]

WholeSecondsAttribute(a) ==
    [a EXCEPT !.values = [i \in DOMAIN @ |-> WholeSecondsValue(@[i])]]

WholeSecondsGroup(g) ==
    [g EXCEPT !.attributes = [n \in DOMAIN @ |-> WholeSecondsAttribute(@[n])]]

\* the operation with the sub-second part of each of its date-time values erased
WholeSeconds(op) ==
    [op EXCEPT !.attribute_groups = [k \in DOMAIN @ |-> WholeSecondsGroup(@[k])]]

\* C1: Operation round-trip.  Decoding the encoding of an Operation completes and
\* returns an Operation equal to it in every field (version, code, request-id,
\* groups, names, tags, ordered values, data), up to the sub-second part of its
\* date-time values.
OperationRoundTrip ==
    (scenario = "operation" /\ pc = "decoded") =>
        /\ decoded.ok
        /\ WholeSeconds(decoded.val) = WholeSeconds(input)

\* C2: Attribute round-trip on a stand-alone buffer.  For an Attribute with at
\* least one value, Attribute::from_ipp on its encoding completes and returns the
\* length of the encoding and Some attribute with the same tag, name and values.
AttributeRoundTrip ==
    (scenario = "attribute" /\ pc = "decoded" /\ input.values # <<>>) =>
        /\ decoded.ok
        /\ decoded.some
        /\ decoded.len = Len(bytes)
        /\ decoded.val = input

\* C3: Length agreement.  The encoding of a value, an attribute, a group table
\* (whatever delimiter tags are its keys) and an operation is ipp_len bytes long.
LengthAgreement ==
    pc = "encoded" =>
        /\ scenario = "value" => Len(bytes) = AttributeValue_ipp_len(input.value)
        /\ scenario = "attribute" => Len(bytes) = Attribute_ipp_len(input)
        /\ scenario = "groups" => Len(bytes) = AttributeGroups_ipp_len(input)
        /\ scenario = "operation" => Len(bytes) = Operation_ipp_len(input)

\* b holds, from offset pos to its end, exactly the records of values i..n of a:
\* each a value-tag, a name-length (the name's with the name after it in the
\* first record, 0x0000 in the others), and the value with its length
RECURSIVE FramedFrom(_, _, _, _)
FramedFrom(b, pos, a, i) ==
    IF i > Len(a.values) THEN pos = Len(b)
    ELSE LET name == IF i = 1 THEN AttributeName_to_string(a.name) ELSE <<>>
             value == AttributeValue_to_ipp(a.values[i])
             value_at == pos + 3 + Len(name)
         IN  /\ value_at + Len(value) <= Len(b)
             /\ b[pos + 1] = a.tag
             /\ b[pos + 2] = Len(name) \div 256
             /\ b[pos + 3] = Len(name) % 256
             /\ SubSeq(b, pos + 4, value_at) = name
             /\ SubSeq(b, value_at + 1, value_at + Len(value)) = value
             /\ FramedFrom(b, value_at + Len(value), a, i + 1)

\* {Integer, "copies", [42]}
CopiesExample ==
    [tag |-> TagInteger, name |-> AttributeName_from_str(Str_copies),
     values |-> << Number(42) >>]

\* C4: Attribute encode framing.  An Attribute with n values encodes to exactly n
\* records in value order, the name in the first record only and name-length
\* 0x0000 in the others; no value gives no bytes; {Integer, "copies", [42]} gives
\* 21 00 06 63 6F 70 69 65 73 00 04 00 00 00 2A.
AttributeEncodeFraming ==
    (scenario = "attribute" /\ pc \in {"encoded", "decoded"}) =>
        /\ FramedFrom(bytes, 0, input, 1)
        /\ input.values = <<>> => bytes = <<>>
        /\ input = CopiesExample =>
               bytes = << 33, 0, 6, 99, 111, 112, 105, 101, 115, 0, 4, 0, 0, 0, 42 >>

\* three values under "page-ranges" are encoded: 14 bytes of tag and name, and
\* three times 6 bytes of value, the last two behind a tag and 0x0000
AttributeEncodeFramingReached ==
    /\ scenario = "attribute" /\ pc = "encoded"
    /\ input.tag = TagInteger
    /\ input.name = AttributeName_from_str(Str_page_ranges)
    /\ input.values = << Number(0), Number(42), Number(-1) >>
    /\ Len(bytes) = 38
    /\ SubSeq(bytes, 21, 23) = << 33, 0, 0 >>
    /\ SubSeq(bytes, 30, 32) = << 33, 0, 0 >>

\* the bytes of the group under key: its delimiter tag and its attributes in the
\* order iter hands them out, or nothing when the table has no such key
GroupBytes(table, iter, key) ==
    IF key \in DOMAIN table
    THEN << key >> \o AttributeGroup_attribute_bytes(table[key], iter[key], 1)
    ELSE <<>>

\* C5: Canonical group order on encode.  The encoding of a table is the bytes of
\* its operation-attributes, unsupported-attributes, printer-attributes and
\* job-attributes groups, in this order, each only if present, and the
\* end-of-attributes tag.
CanonicalGroupOrder ==
    (scenario = "groups" /\ pc \in {"encoded", "decoded"}) =>
        \E iter \in IterationOrders(input) :
            bytes = GroupBytes(input, iter, OperationAttributes)
                    \o GroupBytes(input, iter, UnsupportedAttributes)
                    \o GroupBytes(input, iter, PrinterAttributes)
                    \o GroupBytes(input, iter, JobAttributes)
                    \o << EndOfAttributes >>

\* a table of a printer-attributes and a job-attributes group, each with
\* attributes, is encoded: the printer-attributes group comes first
CanonicalGroupOrderReached ==
    /\ scenario = "groups" /\ pc = "encoded"
    /\ DOMAIN input = {PrinterAttributes, JobAttributes}
    /\ input[PrinterAttributes].attributes # EmptyMap
    /\ input[JobAttributes].attributes # EmptyMap
    /\ bytes[1] = PrinterAttributes
    /\ \E i \in 2..Len(bytes) : bytes[i] = JobAttributes

\* C6: Date-time round-trip to whole seconds.  Decoding the encoding of a UTC
\* instant yields the same year, month, day, hour, minute and second, and a
\* sub-second part of 0.
DateTimeRoundTrip ==
    (scenario = "value" /\ pc = "decoded" /\ input.value.variant = "DateTime") =>
        /\ decoded.ok
        /\ decoded.val = DateTime([input.value.dt EXCEPT !.micro = 0])

\* C7: Date-time wire layout on encode.  After the value-length field come 11
\* bytes: year (big-endian), month, day, hour, minute, second, decisecond 0, the
\* sign, offset-hours, offset-minutes.
DateTimeWireLayout ==
    (scenario = "value" /\ pc = "encoded" /\ input.value.variant = "DateTime") =>
        /\ Len(bytes) = 13
        /\ SubSeq(bytes, 3, 4) = U16BE(input.value.dt.year)
        /\ bytes[5] = input.value.dt.month
        /\ bytes[6] = input.value.dt.day
        /\ bytes[7] = input.value.dt.hour
        /\ bytes[8] = input.value.dt.minute
        /\ bytes[9] = input.value.dt.second
        /\ bytes[10] = 0
        /\ bytes[11] \in {PlusSign, MinusSign}

\* the payload length the value-length field of an encoded value is to hold
PayloadLength(v) ==
    CASE v.variant = "Number" -> 4
      [] v.variant = "Boolean" -> 1
      [] v.variant = "TextWithoutLang" -> Len(v.text)
      [] v.variant = "TextWithLang" -> 2 + Len(v.lang) + 2 + Len(v.text)
      [] v.variant = "DateTime" -> 11

\* C8: Value-length field.  The leading two bytes of an encoded value hold, in
\* big-endian, the number of payload bytes after them: 4 for an integer, 1 for a
\* boolean, the UTF-8 byte count of a string, the size of the two nested strings
\* of a language-tagged text, 11 for a date-time.
ValueLengthField ==
    (scenario = "value" /\ pc = "encoded") =>
        /\ U16From(SubSeq(bytes, 1, 2)) = Len(bytes) - 2
        /\ U16From(SubSeq(bytes, 1, 2)) = PayloadLength(input.value)

\* C9: Decode never crashes.  Operation::from_ipp on a buffer, truncated or
\* faulty as it may be, does not panic.
DecodeNeverCrashes ==
    (scenario = "buffer" /\ pc = "decoded") => decoded.ok

\* C10: Version check.  A request whose version major is not 1, whatever its
\* operation-id, is answered with status server-error-version-not-supported and
\* the operation-attributes group alone.
VersionCheck ==
    (scenario = "request" /\ pc = "handled" /\ input.version.major # 1) =>
        /\ ~response.panic
        /\ response.op.operation_id_or_status_code = ServerErrorVersionNotSupported
        /\ DOMAIN response.op.attribute_groups = {OperationAttributes}

\* the operation-ids of the printer's operations-supported attribute
SupportedOperations ==
    {operation_supported(Printer).values[i].num :
        i \in 1..Len(operation_supported(Printer).values)}

\* C11: Operation-support check.  A request with version major 1 whose
\* operation-id is not in the printer's operations-supported list, an id that is
\* no OperationID included, is answered with status
\* server-error-operation-not-supported and neither a printer-attributes nor an
\* unsupported-attributes group.
OperationSupportCheck ==
    (/\ scenario = "request" /\ pc = "handled"
     /\ input.version.major = 1
     /\ input.operation_id_or_status_code \notin SupportedOperations) =>
        /\ ~response.panic
        /\ response.op.operation_id_or_status_code = ServerErrorOperationNotSupported
        /\ PrinterAttributes \notin DOMAIN response.op.attribute_groups
        /\ UnsupportedAttributes \notin DOMAIN response.op.attribute_groups

\* the names of the printer attributes for which request_printer_attribute has
\* an arm that returns Some
ProviderNames ==
    {Str_ipp_versions_supported, Str_printer_uri_supported, Str_uri_security_supported,
     Str_uri_authentication_supported, Str_printer_name, Str_printer_state,
     Str_printer_state_reasons, Str_operations_supported, Str_charset_configured,
     Str_charset_supported, Str_natural_language_configured,
     Str_generated_natural_language_supported, Str_document_format_default,
     Str_document_format_supported, Str_printer_is_accepting_jobs,
     Str_queued_job_count, Str_pdl_override_supported, Str_printer_up_time,
     Str_printer_current_time, Str_compression_supported}

\* the names a request asks for, if it carries requested-attributes
RequestedOf(groups) ==
    IF /\ OperationAttributes \in DOMAIN groups
       /\ RequestedAttributesName \in DOMAIN groups[OperationAttributes].attributes
    THEN [some |-> TRUE,
          names |-> {v.text : v \in {groups[OperationAttributes]
                                        .attributes[RequestedAttributesName].values[i] :
                                     i \in 1..Len(groups[OperationAttributes]
                                        .attributes[RequestedAttributesName].values)}}]
    ELSE [some |-> FALSE, names |-> {}]

\* the placeholder of an unsupported name
Placeholder(n) ==
    [tag |-> TagUnsupported, name |-> [ns |-> "Unsupported", kw |-> n],
     values |-> << TextWithoutLang(Str_unsupported) >>]

\* name n is in the group of its kind, as the attribute of its kind, and not in
\* the other group
ResolvedIn(supported, unsupported, n) ==
    IF n \in ProviderNames
    THEN /\ [ns |-> "Printer", kw |-> n] \in DOMAIN supported
         /\ \E now \in SampleNow, up_time \in SampleUpTimes :
                supported[[ns |-> "Printer", kw |-> n]]
                    \in PrinterProviders(Printer, now, up_time)
         /\ supported[[ns |-> "Printer", kw |-> n]].name.kw = n
         /\ \A k \in DOMAIN unsupported : k.kw # n
    ELSE /\ Placeholder(n).name \in DOMAIN unsupported
         /\ unsupported[Placeholder(n).name] = Placeholder(n)
         /\ \A k \in DOMAIN supported : k.kw # n

\* the groups of a response resolve the requested names, and hold nothing else
ResolutionOf(requested, groups) ==
    IF requested.some
    THEN /\ PrinterAttributes \in DOMAIN groups
         /\ UnsupportedAttributes \in DOMAIN groups
         /\ \A n \in requested.names :
                ResolvedIn(groups[PrinterAttributes].attributes,
                           groups[UnsupportedAttributes].attributes, n)
         /\ \A k \in DOMAIN groups[PrinterAttributes].attributes
                      \union DOMAIN groups[UnsupportedAttributes].attributes :
                k.kw \in requested.names
    ELSE /\ PrinterAttributes \notin DOMAIN groups
         /\ UnsupportedAttributes \notin DOMAIN groups

\* C12: Attribute resolution.  In the response to a version-1 request with a
\* supported operation, every requested name is in exactly one of two groups:
\* with a provider, in printer-attributes as the provider's attribute; without,
\* in unsupported-attributes as a placeholder with tag Unsupported and the one
\* value "unsupported".  A request without requested-attributes gets neither
\* group.
AttributeResolution ==
    (/\ scenario = "request" /\ pc = "handled"
     /\ input.version.major = 1
     /\ input.operation_id_or_status_code \in SupportedOperations
     /\ ~response.panic) =>
        ResolutionOf(RequestedOf(input.attribute_groups), response.op.attribute_groups)

\* Get-Printer-Attributes asking for printer-state and for "bogus" is answered:
\* one name in each group
AttributeResolutionReached ==
    /\ scenario = "request" /\ pc = "handled"
    /\ input.version.major = 1
    /\ input.operation_id_or_status_code = GetPrinterAttributes
    /\ RequestedOf(input.attribute_groups).names = {Str_printer_state, Str_bogus}
    /\ ~response.panic
    /\ DOMAIN response.op.attribute_groups[PrinterAttributes].attributes
           = {[ns |-> "Printer", kw |-> Str_printer_state]}
    /\ DOMAIN response.op.attribute_groups[UnsupportedAttributes].attributes
           = {[ns |-> "Unsupported", kw |-> Str_bogus]}

\* the operation-attributes group of the table is the printer's charset, natural
\* language and uri
EchoIn(groups) ==
    /\ OperationAttributes \in DOMAIN groups
    /\ groups[OperationAttributes].attributes
           = AttributeTable3(attributes_charset(Printer),
                             attributes_natural_language(Printer), printer_uri(Printer))

\* the same of the table a client decodes from the response's bytes
EchoDecoded(r) == r.ok /\ EchoIn(r.val.attribute_groups)

\* C13: Terminal response.  Every response of handle has the operation-attributes
\* group with attributes-charset, attributes-natural-language and printer-uri, as
\* an Operation and on the wire; its status is successful-ok unless the version
\* check or the operation-support check failed, whatever names were unsupported.
TerminalResponse ==
    (scenario = "request" /\ pc = "handled" /\ ~response.panic) =>
        /\ EchoIn(response.op.attribute_groups)
        /\ EchoDecoded(Operation_from_ipp(response.out, 0))
        /\ (response.op.operation_id_or_status_code = SuccessfulOk)
               <=> (/\ input.version.major = 1
                    /\ input.operation_id_or_status_code \in SupportedOperations)
        /\ response.op.operation_id_or_status_code
               \in {SuccessfulOk, ServerErrorVersionNotSupported,
                    ServerErrorOperationNotSupported}

\* a response with a placeholder in its unsupported-attributes group and status
\* successful-ok is produced
TerminalResponseReached ==
    /\ scenario = "request" /\ pc = "handled" /\ ~response.panic
    /\ response.out # <<>>
    /\ UnsupportedAttributes \in DOMAIN response.op.attribute_groups
    /\ response.op.attribute_groups[UnsupportedAttributes].attributes # EmptyMap
    /\ response.op.operation_id_or_status_code = SuccessfulOk

\* the offset behind the record at pos of b: a tag, a name with its length and a
\* value with its length; Len(b) + 1 when b ends inside the record
RecordEnd(b, pos) ==
    IF pos + 3 > Len(b) THEN Len(b) + 1
    ELSE LET value_at == pos + 3 + U16From(SubSeq(b, pos + 2, pos + 3))
         IN  IF value_at + 2 > Len(b) THEN Len(b) + 1
             ELSE value_at + 2 + U16From(SubSeq(b, value_at + 1, value_at + 2))

\* the delimiter tags met walking b record by record from pos, each with its
\* offset, up to and including the first end-of-attributes tag
RECURSIVE DelimitersFrom(_, _)
DelimitersFrom(b, pos) ==
    IF pos >= Len(b) THEN <<>>
    ELSE IF b[pos + 1] = EndOfAttributes THEN << [tag |-> b[pos + 1], at |-> pos] >>
    ELSE IF b[pos + 1] \in DelimiterTag
         THEN << [tag |-> b[pos + 1], at |-> pos] >> \o DelimitersFrom(b, pos + 1)
    ELSE DelimitersFrom(b, RecordEnd(b, pos))

\* ds is one delimiter per group of present, and then the end-of-attributes
\* tag, which is the last byte of b
EndsOnce(b, ds, present) ==
    /\ b # <<>>
    /\ b[Len(b)] = EndOfAttributes
    /\ Len(ds) = Len(present) + 1
    /\ \A i \in 1..Len(present) : ds[i].tag = present[i]
    /\ ds[Len(ds)] = [tag |-> EndOfAttributes, at |-> Len(b) - 1]

PresentIn(table) == SelectSeq(GroupOrder, LAMBDA k : k \in DOMAIN table)

\* C14: End-of-attributes on encode.  The encoding of every table, the empty one
\* included, ends with the end-of-attributes tag 0x03; walking the encoding
\* record by record, the tag is met once, behind the delimiters of all present
\* groups.
EndOfAttributesOnEncode ==
    (scenario = "groups" /\ pc \in {"encoded", "decoded"}) =>
        /\ EndsOnce(bytes, DelimitersFrom(bytes, 0), PresentIn(input))
        /\ input = EmptyMap => bytes = << EndOfAttributes >>

\* a table of two groups with attributes is encoded
EndOfAttributesOnEncodeReached ==
    /\ scenario = "groups" /\ pc = "encoded"
    /\ DOMAIN input = {OperationAttributes, JobAttributes}
    /\ input[OperationAttributes].attributes # EmptyMap
    /\ input[JobAttributes].attributes # EmptyMap
    /\ Len(bytes) > 3
    /\ bytes[Len(bytes)] = EndOfAttributes

\* ds, the delimiters of a buffer, ends in the end-of-attributes tag
Terminated(ds) == ds # <<>> /\ ds[Len(ds)].tag = EndOfAttributes

\* r, the decoding of b, holds as data the bytes of b behind offset end, where the
\* end-of-attributes tag is; its length is what is left of b after the bytes
\* consumed
DataDecoded(b, end, r) ==
    /\ r.val.data = SubSeq(b, end + 2, Len(b))
    /\ r.len + Len(r.val.data) = Len(b)
    /\ end = Len(b) - 1 => r.val.data = <<>>

\* the same of a buffer whose delimiters are ds, when the group table was read
\* up to the end-of-attributes tag that the declared lengths lead to (a record
\* whose decoder consumes another length than it declares leads elsewhere);
\* whatever was read, the bytes consumed and data make up the buffer
DataDecodedBehind(b, ds, r) ==
    /\ r.len + Len(r.val.data) = Len(b)
    /\ (Terminated(ds) /\ r.len = ds[Len(ds)].at + 1) =>
           DataDecoded(b, ds[Len(ds)].at, r)

\* one of the orders in which a HashMap may hand out the attributes of each group
SomeOrder(table) ==
    [k \in DOMAIN table |-> CHOOSE p \in Perms(DOMAIN table[k].attributes) : TRUE]

\* b, an encoding, is 8 bytes of header, n bytes of group table that end in the
\* end-of-attributes tag, and data
DataEncoded(b, n, data) ==
    /\ Len(b) = 8 + n + Len(data)
    /\ b[8 + n] = EndOfAttributes
    /\ SubSeq(b, 9 + n, Len(b)) = data

Written(table) == [k \in DOMAIN table \cap {GroupOrder[i] : i \in 1..Len(GroupOrder)} |-> table[k]]

\* the tags in ds, delimiters with their offsets, but the end-of-attributes tag
GroupTagsSeen(ds) == {ds[i].tag : i \in 1..Len(ds)} \ {EndOfAttributes}

\* r, the decoding of b, has one group per delimiter of ds, keyed by its tag and
\* holding the attributes of table, and has consumed all of b
GroupsDecoded(b, ds, table, r) ==
    /\ r.ok
    /\ DOMAIN r.val = GroupTagsSeen(ds)
    /\ Cardinality(DOMAIN r.val) = Len(ds) - 1
    /\ \A k \in DOMAIN r.val : r.val[k].tag = k
    /\ r.val = table
    /\ r.len = Len(b)
    /\ b[r.len] = EndOfAttributes

\* C16: Group-table decode of a well-formed buffer.  Decoding delimiter tag,
\* attributes, delimiter tag, attributes, 0x03 yields one entry per delimiter
\* tag, keyed by the tag, with the attributes between the tag and the next
\* delimiter; every byte up to and including 0x03 is consumed and no byte is
\* left as trailing data.
GroupTableDecode ==
    (scenario = "groups" /\ pc = "decoded") =>
        GroupsDecoded(bytes, DelimitersFrom(bytes, 0), Written(input), decoded)

\* the encoding of a table with an operation-attributes and a printer-attributes
\* group, each with attributes, is decoded to a table of two groups
GroupTableDecodeReached ==
    /\ scenario = "groups" /\ pc = "decoded"
    /\ bytes[1] = OperationAttributes
    /\ Len(bytes) > 20
    /\ decoded.ok
    /\ DOMAIN decoded.val = {OperationAttributes, PrinterAttributes}
    /\ decoded.val[OperationAttributes].attributes # EmptyMap
    /\ decoded.val[PrinterAttributes].attributes # EmptyMap

\* r, a decoding, is the empty table with one byte consumed
EmptyTable(r) == r.ok /\ r.val = EmptyMap /\ r.len = 1

\* r, the decoding of an operation, has the empty table with one byte consumed
\* behind the 8 bytes of header, and the rest of b as data
EmptyTableIn(b, r) ==
    /\ r.ok
    /\ r.val.attribute_groups = EmptyMap
    /\ r.len = 8 + 1
    /\ r.val.data = SubSeq(b, 10, Len(b))

\* C17: Empty-table boundary.  Decoding a group table whose first byte is the
\* end-of-attributes tag 0x03 yields the empty table and 1 byte consumed, with
\* or without bytes behind the tag.
EmptyTableBoundary ==
    /\ (scenario = "groups" /\ pc = "decoded" /\ bytes[1] = EndOfAttributes) =>
           EmptyTable(decoded)
    /\ (/\ scenario \in {"operation", "buffer"} /\ pc = "decoded"
        /\ Len(bytes) >= 9 /\ bytes[9] = EndOfAttributes) =>
           EmptyTableIn(bytes, decoded)

\* an operation without groups and with two bytes of data, the first 0x03, is
\* decoded
EmptyTableBoundaryReached ==
    /\ scenario = "operation" /\ pc = "decoded"
    /\ Len(bytes) = 11
    /\ SubSeq(bytes, 9, 11) = << EndOfAttributes >> \o DataBytes(2)
    /\ decoded.ok
    /\ decoded.val.attribute_groups = EmptyMap
    /\ decoded.val.data = DataBytes(2)

\* r, what from_ipp returned at the first of the records of a, has tag and name
\* of the first record, one value per record, other than a date-time equal to
\* the record's, and as length the size n of all the records
Absorbed(a, n, r) ==
    /\ r.some
    /\ r.val.tag = a.tag
    /\ r.val.name = a.name
    /\ Len(r.val.values) = Len(a.values)
    /\ \A i \in 1..Len(a.values) :
           (i <= Len(r.val.values) /\ a.values[i].variant # "DateTime") =>
               r.val.values[i] = a.values[i]
    /\ r.len = n

\* C18: Multi-value decode.  Attribute::from_ipp, started at an attribute record
\* that is followed by records of name-length 0, returns tag and name of the
\* first record, the values of all these records in wire order, and as bytes
\* consumed the total size of the records.
MultiValueDecode ==
    (scenario = "attribute" /\ pc = "decoded" /\ decoded.ok /\ input.values # <<>>) =>
        Absorbed(input, Len(bytes), decoded)

\* walking b record by record from pos, b ends behind an attribute record
\* without an end-of-attributes tag met; after_record: the walk has just passed
\* a record
RECURSIVE EndsAtRecord(_, _, _)
EndsAtRecord(b, pos, after_record) ==
    IF pos = Len(b) THEN after_record
    ELSE IF pos > Len(b) THEN FALSE
    ELSE IF b[pos + 1] = EndOfAttributes THEN FALSE
    ELSE IF b[pos + 1] \in DelimiterTag THEN EndsAtRecord(b, pos + 1, FALSE)
    ELSE EndsAtRecord(b, RecordEnd(b, pos), TRUE)

\* r, the decoding of b, has the groups whose delimiters are ds, the last with
\* attributes, and has stopped at the end of b
DecodedSoFar(b, ds, r) ==
    /\ r.ok
    /\ DOMAIN r.val.attribute_groups = GroupTagsSeen(ds)
    /\ r.val.attribute_groups[ds[Len(ds)].tag].attributes # EmptyMap
    /\ r.len = Len(b)

\* C19: Exhausted buffer.  When the buffer ends right behind the last attribute
\* of a group, without an end-of-attributes tag, decode stops at the end of the
\* buffer and returns the groups and attributes decoded so far, the last group
\* included.
ExhaustedBuffer ==
    (/\ scenario = "buffer" /\ pc = "decoded"
     /\ Len(bytes) > 8 /\ bytes[9] \in DelimiterTag
     /\ EndsAtRecord(bytes, 8, FALSE)) =>
        DecodedSoFar(bytes, DelimitersFrom(bytes, 8), decoded)

\* op, a response, carries no resolved attribute: neither a printer-attributes
\* nor an unsupported-attributes group
Unresolved(op) ==
    /\ PrinterAttributes \notin DOMAIN op.attribute_groups
    /\ UnsupportedAttributes \notin DOMAIN op.attribute_groups

\* C20: Dispatch order.  The version check comes before the operation-support
\* check, and nothing comes after a failed check: a request with an unsupported
\* major version and an unsupported operation-id is answered with
\* version-not-supported (0x0503), and a response with the status of either
\* failed check carries no resolved attribute.
DispatchOrder ==
    (scenario = "request" /\ pc = "handled") =>
        /\ (/\ input.version.major # 1
            /\ input.operation_id_or_status_code \notin SupportedOperations) =>
               /\ ~response.panic
               /\ response.op.operation_id_or_status_code = ServerErrorVersionNotSupported
        /\ (/\ ~response.panic
            /\ \/ input.version.major # 1
               \/ input.operation_id_or_status_code \notin SupportedOperations) =>
               Unresolved(response.op)

\* the date-time on the wire in the 11 bytes of b behind offset start
WireDateTime(b, start) ==
    [year |-> U16From(SubSeq(b, start + 1, start + 2)), month |-> b[start + 3],
     day |-> b[start + 4], hour |-> b[start + 5], minute |-> b[start + 6],
     second |-> b[start + 7], deci |-> b[start + 8], sign |-> b[start + 9],
     offset_hours |-> b[start + 10], offset_minutes |-> b[start + 11]]

\* w is a local time with an offset from UTC
WellFormedWire(w) ==
    /\ ValidDate(w.year, w.month, w.day)
    /\ w.hour < 24 /\ w.minute < 60 /\ w.second < 60 /\ w.deci < 10
    /\ w.sign \in {PlusSign, MinusSign}
    /\ w.offset_hours < 24 /\ w.offset_minutes < 60

\* the day before and the day after year y, month m, day d
DayBefore(y, m, d) ==
    IF d > 1 THEN [year |-> y, month |-> m, day |-> d - 1]
    ELSE IF m > 1 THEN [year |-> y, month |-> m - 1, day |-> DaysInMonth(y, m - 1)]
    ELSE [year |-> y - 1, month |-> 12, day |-> 31]

DayAfter(y, m, d) ==
    IF d < DaysInMonth(y, m) THEN [year |-> y, month |-> m, day |-> d + 1]
    ELSE IF m < 12 THEN [year |-> y, month |-> m + 1, day |-> 1]
    ELSE [year |-> y + 1, month |-> 1, day |-> 1]

\* the UTC instant of w, given minutes, the minute of w's day less w's signed
\* offset: local time is UTC plus the offset
UtcAt(w, minutes) ==
    LET date == IF minutes < 0 THEN DayBefore(w.year, w.month, w.day)
                ELSE IF minutes >= 1440 THEN DayAfter(w.year, w.month, w.day)
                ELSE [year |-> w.year, month |-> w.month, day |-> w.day]
        of_day == (minutes + 1440) % 1440
    IN  [year |-> date.year, month |-> date.month, day |-> date.day,
         hour |-> of_day \div 60, minute |-> of_day % 60, second |-> w.second,
         micro |-> w.deci * 100000]

UtcInstant(w) ==
    UtcAt(w, w.hour * 60 + w.minute
             - (IF w.sign = MinusSign THEN -1 ELSE 1)
               * (w.offset_hours * 60 + w.offset_minutes))

\* b is a message of one group with the one attribute x, a date-time
DateTimeMessage(b) ==
    /\ Len(b) = 27
    /\ SubSeq(b, 9, 15) = << OperationAttributes, TagDateTime, 0, 1, 120, 0, 11 >>
    /\ b[27] = EndOfAttributes

\* r, the decoding of such a message, holds the date-time t
DecodedInstant(r, t) ==
    /\ r.ok
    /\ OperationAttributes \in DOMAIN r.val.attribute_groups
    /\ r.val.attribute_groups[OperationAttributes]
           .attributes[AttributeName_from_str(Str_x)].values = << DateTime(t) >>

\* C21: Date-time decode offset.  A wire date-time with sign, offset-hours 0..23
\* and offset-minutes 0..59 decodes to the UTC instant of the wire's local time,
\* the local time shifted by the signed offset, with no overflow or wrap-around
\* of the 8-bit arithmetic.
DateTimeDecodeOffset ==
    (/\ scenario = "buffer" /\ pc = "decoded"
     /\ DateTimeMessage(bytes)
     /\ WellFormedWire(WireDateTime(bytes, 15))) =>
        DecodedInstant(decoded, UtcInstant(WireDateTime(bytes, 15)))

\* the variant of the values of an attribute with this tag
VariantOf(tag) ==
    IF tag \in {TagInteger, TagEnum} THEN "Number"
    ELSE IF tag = TagBoolean THEN "Boolean"
    ELSE IF tag = TagTextWithLanguage THEN "TextWithLang"
    ELSE IF tag = TagDateTime THEN "DateTime"
    ELSE "TextWithoutLang"

\* every value of a is of the variant of a's tag
UniformValues(a) ==
    \A i \in 1..Len(a.values) : a.values[i].variant = VariantOf(a.tag)

\* every attribute of every group of table has uniform values
UniformTable(table) ==
    \A k \in DOMAIN table :
        \A n \in DOMAIN table[k].attributes : UniformValues(table[k].attributes[n])

\* C22: Uniform value tag.  Every Attribute that decode returns has values of
\* the variant its one tag selects, also when a record of an additional value
\* carries another value tag than the first record.
UniformValueTag ==
    /\ (scenario = "buffer" /\ pc = "decoded" /\ decoded.ok) =>
           UniformTable(decoded.val.attribute_groups)
    /\ (scenario = "attribute" /\ pc = "decoded" /\ decoded.ok /\ decoded.some) =>
           UniformValues(decoded.val)

\* the bytes of v as the primitive encoder of its variant writes them
VariantBytes(v) ==
    IF v.variant = "Number" THEN i32_to_ipp(v.num)
    ELSE IF v.variant = "Boolean" THEN bool_to_ipp(v.bool)
    ELSE IF v.variant = "TextWithLang" THEN TextWithLang_to_ipp(v)
    ELSE IF v.variant = "DateTime" THEN DateTime_to_ipp(v.dt)
    ELSE String_to_ipp(v.text)

\* b is the one record of a, an attribute of one value: its tag as tag byte, its
\* name, and the bytes of the value's variant
OneRecord(b, a) ==
    b = << a.tag >> \o U16BE(Len(AttributeName_to_string(a.name)))
        \o AttributeName_to_string(a.name) \o VariantBytes(a.values[1])

\* the first value of every attribute of table is of the variant of the
\* attribute's tag, the tag of its first record
DispatchedTable(table) ==
    \A k \in DOMAIN table :
        \A n \in DOMAIN table[k].attributes :
            table[k].attributes[n].values[1].variant
                = VariantOf(table[k].attributes[n].tag)

\* C23: Value variant dispatch.  Decode picks the primitive decoder by the value
\* tag alone: Integer and Enum give Number, Boolean gives Boolean,
\* TextWithLanguage gives TextWithLang, DateTime gives DateTime, every other tag,
\* NameWithLanguage and the out-of-band tags included, gives plain text.  Encode
\* picks the primitive encoder by the value's variant alone; the attribute's tag
\* is the record's tag byte and nothing else.
ValueVariantDispatch ==
    /\ (scenario = "value" /\ pc = "decoded" /\ decoded.ok) =>
           decoded.val.variant = VariantOf(input.tag)
    /\ (scenario = "buffer" /\ pc = "decoded" /\ decoded.ok) =>
           DispatchedTable(decoded.val.attribute_groups)
    /\ (scenario = "value" /\ pc \in {"encoded", "decoded"}) =>
           bytes = VariantBytes(input.value)
    /\ (/\ scenario = "attribute" /\ pc \in {"encoded", "decoded"}
        /\ Len(input.values) = 1) =>
           OneRecord(bytes, input)

\* a NameWithLanguage record that holds a language and a text is decoded to one
\* plain text of the 7 bytes of its value
ValueVariantDispatchReached ==
    /\ scenario = "buffer" /\ pc = "decoded" /\ decoded.ok
    /\ Len(bytes) > 10 /\ bytes[10] = TagNameWithLanguage
    /\ decoded.val.attribute_groups[OperationAttributes]
           .attributes[AttributeName_from_str(Str_x)].values
         = << TextWithoutLang(<< 0, 2, 101, 110, 0, 1, 97 >>) >>

\* the records with a name met walking b record by record from pos up to the
\* next delimiter: each with its tag, its name and the offset of its value
RECURSIVE NamedRecords(_, _)
NamedRecords(b, pos) ==
    IF pos + 3 > Len(b) \/ b[pos + 1] \in DelimiterTag THEN <<>>
    ELSE LET name_len == U16From(SubSeq(b, pos + 2, pos + 3))
         IN  (IF name_len = 0 THEN <<>>
              ELSE << [tag |-> b[pos + 1],
                       name |-> AttributeName_from_str(SubSeq(b, pos + 4, pos + 3 + name_len)),
                       value_at |-> pos + 3 + name_len] >>)
             \o NamedRecords(b, RecordEnd(b, pos))

\* some name is the name of two of the records rs
Repeated(rs) ==
    \E i \in 1..Len(rs) : \E j \in 1..Len(rs) : i < j /\ rs[i].name = rs[j].name

\* the last of the records rs with the name n
LastNamed(rs, n) ==
    rs[CHOOSE j \in 1..Len(rs) :
           rs[j].name = n /\ \A l \in (j + 1)..Len(rs) : rs[l].name # n]

\* a is the attribute that starts with the record rec of b
StartsAt(b, a, rec, value) ==
    /\ a.tag = rec.tag
    /\ a.name = rec.name
    /\ value.ok
    /\ a.values[1] = value.val

\* attributes holds one attribute per name of rs, the one of the last record
\* with that name
LaterWins(b, rs, attributes) ==
    /\ DOMAIN attributes = {rs[i].name : i \in 1..Len(rs)}
    /\ \A n \in DOMAIN attributes :
           StartsAt(b, attributes[n], LastNamed(rs, n),
                    AttributeValue_from_ipp(b, LastNamed(rs, n).value_at,
                                            LastNamed(rs, n).tag))

\* C24: Repeated attribute name.  When a group of the buffer has two attributes
\* with the same non-empty name, the decoded group has exactly one Attribute
\* under that name, the later one with its tag and values; the earlier one is
\* gone.
RepeatedAttributeName ==
    (/\ scenario = "buffer" /\ pc = "decoded" /\ decoded.ok
     /\ Len(bytes) > 8 /\ bytes[9] = OperationAttributes
     /\ Repeated(NamedRecords(bytes, 9))) =>
        /\ OperationAttributes \in DOMAIN decoded.val.attribute_groups
        /\ LaterWins(bytes, NamedRecords(bytes, 9),
                     decoded.val.attribute_groups[OperationAttributes].attributes)

\* the message with x = 42 and then x = true is decoded to x = true alone
RepeatedAttributeNameReached ==
    /\ scenario = "buffer" /\ pc = "decoded" /\ decoded.ok
    /\ Len(bytes) = 27
    /\ SubSeq(bytes, 10, 14) = << TagInteger, 0, 1, 120, 0 >>
    /\ SubSeq(bytes, 20, 23) = << TagBoolean, 0, 1, 120 >>
    /\ decoded.val.attribute_groups[OperationAttributes].attributes
         = AttributeMap({[tag |-> TagBoolean, name |-> AttributeName_from_str(Str_x),
                          values |-> << Boolean(TRUE) >>]})

\* some group tag is met twice in ds, delimiters with their offsets
RepeatedTag(ds) ==
    \E i \in 1..Len(ds) : \E j \in 1..Len(ds) : i < j /\ ds[i].tag = ds[j].tag

\* the offset behind the last delimiter of ds with the tag k
BehindLast(ds, k) ==
    ds[CHOOSE j \in 1..Len(ds) :
           ds[j].tag = k /\ \A l \in (j + 1)..Len(ds) : ds[l].tag # k].at + 1

\* the group g holds the attributes that start at the records rs of b
GroupOf(b, rs, g) ==
    LaterWins(b, rs, g.attributes)

\* r, a decoding of b without error, has one group per tag of ds, with the
\* attributes behind the tag's last occurrence and no other
SecondOccurrence(b, ds, r) ==
    /\ r.ok
    /\ DOMAIN r.val.attribute_groups = GroupTagsSeen(ds)
    /\ \A k \in DOMAIN r.val.attribute_groups :
           /\ r.val.attribute_groups[k].tag = k
           /\ GroupOf(b, NamedRecords(b, BehindLast(ds, k)), r.val.attribute_groups[k])

\* C25: Repeated group tag.  When one delimiter tag begins two groups of a
\* message, the decoded table has a single entry for the tag, holding the
\* attributes of the second occurrence only, none of the first, and decoding
\* reports no error.
RepeatedGroupTag ==
    (/\ scenario = "buffer" /\ pc = "decoded"
     /\ Terminated(DelimitersFrom(bytes, 8))
     /\ RepeatedTag(DelimitersFrom(bytes, 8))) =>
        SecondOccurrence(bytes, DelimitersFrom(bytes, 8), decoded)

\* the message with the group of x = true and then the group of y = 42, both
\* operation-attributes, is decoded to the one group of y = 42
RepeatedGroupTagReached ==
    /\ scenario = "buffer" /\ pc = "decoded" /\ decoded.ok
    /\ Len(bytes) = 28
    /\ bytes[9] = OperationAttributes /\ bytes[17] = OperationAttributes
    /\ DOMAIN decoded.val.attribute_groups = {OperationAttributes}
    /\ DOMAIN decoded.val.attribute_groups[OperationAttributes].attributes
         = {AttributeName_from_str(<< 121 >>)}

\* C26: Side-effect gating.  handle writes the request's trailing data as a
\* document, and runs the conversion, only when the version check and the
\* operation-support check passed and the operation is Print-Job; on both error
\* paths and for the other supported operations nothing is written.
SideEffectGating ==
    (scenario = "request" /\ pc = "handled") =>
        /\ (response.print_job \/ response.written \/ response.converted) =>
               /\ input.version.major = 1
               /\ input.operation_id_or_status_code \in SupportedOperations
               /\ input.operation_id_or_status_code = PrintJob
        /\ response.converted => response.written
        /\ response.written => response.document = input.data
        /\ ~response.written => response.document = <<>>

\* a Print-Job request with data is answered, its data written and converted
SideEffectGatingReached ==
    /\ scenario = "request" /\ pc = "handled" /\ ~response.panic
    /\ input.operation_id_or_status_code = PrintJob
    /\ input.data # <<>>
    /\ response.written /\ response.converted
    /\ response.document = input.data
    /\ response.op.operation_id_or_status_code = SuccessfulOk

\* the names of the records rs
NamesFrom(rs) == {rs[i].name : i \in 1..Len(rs)}

\* r, the decoding of b, has read every record where the value-lengths of the
\* records before it put it: its groups are those of ds, the delimiters met
\* walking b by the declared lengths, each with the names met behind its tag,
\* and the bytes consumed end behind the end-of-attributes tag
ReadInStep(b, ds, r) ==
    /\ DOMAIN r.val.attribute_groups = GroupTagsSeen(ds)
    /\ \A k \in DOMAIN r.val.attribute_groups :
           DOMAIN r.val.attribute_groups[k].attributes
               = NamesFrom(NamedRecords(b, BehindLast(ds, k)))
    /\ r.len = ds[Len(ds)].at + 1

\* C27: Framing consistency.  The bytes a value decoder reports as consumed are
\* 2 + the value-length declared in the record, for every value tag, so that
\* the record behind it is read from the right offset: an Integer, Enum,
\* Boolean or DateTime record with a declared value-length other than 4, 1 or 11
\* does not shift the decoding of the records behind it.
FramingConsistency ==
    /\ (scenario = "value" /\ pc = "decoded" /\ decoded.ok) =>
           decoded.len = 2 + U16From(SubSeq(bytes, 1, 2))
    /\ (/\ scenario = "buffer" /\ pc = "decoded" /\ decoded.ok
        /\ Terminated(DelimitersFrom(bytes, 8))) =>
           ReadInStep(bytes, DelimitersFrom(bytes, 8), decoded)

\* C28: Concurrent Print-Job isolation.  When two Print-Job requests are handled
\* at the same time by the shared printer, what each call hands to the format
\* conversion is the trailing data of its own request, in every interleaving.
ConcurrentPrintJobIsolation ==
    scenario = "jobs" =>
        \A h \in Handlers :
            (jobs[h].pc = "done" /\ jobs[h].printed) =>
                jobs[h].converted = input[h].data

\* out, the bytes handle returns for the request in b, open with the version
\* 1.1, carry the request-id bytes of b, and end with the end-of-attributes tag
\* behind the n bytes of the group table
EnvelopeBytes(out, b, n) ==
    /\ SubSeq(out, 1, 2) = << 1, 1 >>
    /\ SubSeq(out, 5, 8) = SubSeq(b, 5, 8)
    /\ DataEncoded(out, n, <<>>)

\* C29: Response envelope.  On every path on which handle returns a response
\* (success, version-not-supported, operation-not-supported) the response has
\* the request_id of the request, the version 1.1 whatever version the request
\* carried, and no trailing data, in the Operation and in the bytes returned.
ResponseEnvelope ==
    (scenario = "request" /\ pc = "handled" /\ ~response.panic) =>
        /\ response.op.request_id = input.request_id
        /\ response.op.version = [major |-> 1, minor |-> 1]
        /\ response.op.data = <<>>
        /\ EnvelopeBytes(response.out, bytes,
                         Len(AttributeGroups_to_ipp(response.op.attribute_groups,
                                                    SomeOrder(response.op.attribute_groups))))

\* a request of version 2.1 with data is refused in a response of version 1.1
\* that has its request_id and no data
ResponseEnvelopeReached ==
    /\ scenario = "request" /\ pc = "handled" /\ ~response.panic
    /\ input.version = [major |-> 2, minor |-> 1]
    /\ input.data # <<>>
    /\ response.op.operation_id_or_status_code = ServerErrorVersionNotSupported
    /\ response.op.version = [major |-> 1, minor |-> 1]
    /\ response.op.request_id = input.request_id
    /\ response.op.data = <<>>
    /\ SubSeq(response.out, 1, 2) = << 1, 1 >>

\* the decoding has ended: Operation::from_ipp has returned, or has panicked
Finished == pc \in {"returned", "failed"}

\* a step of the decoding that ends a round of one of its loops leaves the
\* offset of that loop beyond where the round found it, and no step moves
\* shifting_offset back
Advances ==
    (scenario = "steps" /\ pc # "start" /\ pc' # "failed") =>
        /\ decoded'.shifting_offset >= decoded.shifting_offset
        /\ (pc = "loop" /\ pc' = "while") =>
               decoded'.shifting_offset > decoded.shifting_offset
        /\ (pc = "loop" /\ pc' = "from_ipp") =>
               decoded'.shifting_offset > decoded.shifting_offset
        /\ (pc = "values" /\ pc' = "values") =>
               decoded'.first_offset > decoded.first_offset

\* C30: Decode termination.  For every buffer Operation::from_ipp finishes, by
\* returning or by failing: every round of the group loop, of its inner loop
\* and of the additional-value loop moves the offset strictly forward, so no
\* buffer makes the decoding loop forever.
DecodeTermination ==
    /\ [][Advances]_vars
    /\ (scenario = "steps") ~> Finished

\* the well-formed message is decoded to its end-of-attributes tag, the group
\* loop having gone round once and the additional-value loop having absorbed
\* the second value of copies (15 + 9 bytes)
DecodeTerminationReached ==
    /\ scenario = "steps" /\ pc = "returned"
    /\ bytes = GoodBuffer
    /\ decoded.first_offset = 24
    /\ decoded.shifting_offset = Len(GoodBuffer) - 2

=============================================================================
